---- MODULE Spec2Model ----
(***************************************************************************)
(* F1 driver rater: the rating store (src/utils/storage.ts) and the        *)
(* head-to-head engine of the TeammateWars view.                           *)
(*                                                                         *)
(* Conventions.                                                            *)
(*  - A rating is held as an integer number of hundredths (7.5 is 750),    *)
(*    so that the two-decimal average is an integer too.                   *)
(*  - A value that may be null/undefined is a sequence of length 0 or 1.   *)
(*  - localStorage holds two keys; the value of each is modelled parsed,   *)
(*    as the function from season to entry (JSON.stringify/JSON.parse is   *)
(*    the identity on these values).  A setItem call may throw.            *)
(*  - The display-only snapshots (driverName, constructorName, raceName,   *)
(*    date) are carried through unchanged by every operation and are left  *)
(*    out of the records.                                                  *)
(***************************************************************************)
EXTENDS Integers, Sequences, FiniteSets, TLC

VARIABLES
    allRatings,       \* localStorage f1_pilot_ratings: season -> SeasonRatings
    allQuickRatings,  \* localStorage f1_quick_ratings: season -> DriverRating[]
    last,             \* the store operation that led to the state
    exported,         \* the file made by the last export, if any
    provider,         \* what the statistics provider holds for the season
    raceResults,      \* TeammateWars state
    qualiResults,
    raceStatus,
    qualiStatus,
    loading,
    dataLoaded,
    h2h,              \* the head-to-head last rendered, if any
    fetches,          \* the season of each fetchData run of the view, in order
    inflight,         \* the fetchData runs that have not settled yet
    shown,            \* the fetchData run whose answer the view state holds
    now,              \* Date.now()
    cache,            \* localStorage jolpica:* keys: key -> CacheRecord
    call,             \* the call of the remote data client in progress
    flows,            \* the rating modals: what each has loaded and saved
    raceList,         \* the race list: its calendar and what it last rendered
    page              \* StandingsPage state and the maps it renders from it

storeVars == <<allRatings, allQuickRatings, last, exported>>
viewVars == <<provider, raceResults, qualiResults, raceStatus, qualiStatus,
              loading, dataLoaded, h2h, fetches, inflight, shown>>
clientVars == <<now, cache, call>>
modalVars == <<flows>>
listVars == <<raceList>>
pageVars == <<page>>
vars == <<allRatings, allQuickRatings, last, exported,
          provider, raceResults, qualiResults, raceStatus, qualiStatus,
          loading, dataLoaded, h2h, fetches, inflight, shown,
          now, cache, call, flows, raceList, page>>
nonStoreVars == <<viewVars, clientVars, modalVars, listVars, pageVars>>
nonViewVars == <<storeVars, clientVars, modalVars, listVars, pageVars>>
nonClientVars == <<storeVars, viewVars, modalVars, listVars, pageVars>>

(***************************************************************************)
(* Bounds and input sets                                                   *)
(***************************************************************************)
MaxRound == 2

\* "2024" is the season under study; "2023" is the bystander season that the
\* operations on "2024" must leave alone (and conversely)
Seasons == {"2023", "2024"}
Rounds == {ToString(i) : i \in 1..MaxRound}
RoundsOf(season) == IF season = "2024" THEN Rounds ELSE {"1"}

None == <<>>
Some(x) == <<x>>

DriverRating(d, c, r) == [driverId |-> d, constructorId |-> c, rating |-> r]

RaceRecord(round, ratings, completed) ==
    [round |-> round, ratings |-> ratings, completed |-> completed]

\* The identifiers come from the statistics provider and from imported files;
\* they may contain the underscore (red_bull, max_verstappen).
RatingLists ==
    {<<DriverRating("hill", "red_bull", 800)>>,
     <<DriverRating("hill_red", "bull", 600)>>}
ListsOf(season) ==
    IF season = "2024" THEN RatingLists
    ELSE {<<DriverRating("hill", "red_bull", 800)>>}
\* the quick-rate modal saves an empty list when its driver list did not load
QuickListsOf(season) ==
    IF season = "2024" THEN RatingLists \cup {<<>>} ELSE ListsOf(season)

(***************************************************************************)
(* Reads                                                                   *)
(***************************************************************************)
getSeasonRatings(all, season) ==
    IF season \in DOMAIN all THEN Some(all[season]) ELSE None

getQuickRatings(allQuick, season) ==
    IF season \in DOMAIN allQuick THEN Some(allQuick[season]) ELSE None

\* Array.prototype.findIndex, 1-based; 0 when no element matches
findIndexRound(races, round) ==
    IF \E i \in 1..Len(races) : races[i].round = round
    THEN CHOOSE i \in 1..Len(races) :
            /\ races[i].round = round
            /\ \A j \in 1..(i - 1) : races[j].round # round
    ELSE 0

getRaceRatings(all, season, round) ==
    LET sr == getSeasonRatings(all, season) IN
    IF sr = None THEN None
    ELSE LET i == findIndexRound(sr[1].races, round) IN
         IF i = 0 THEN None ELSE Some(sr[1].races[i])

\* raceRatings?.completed || false
isRaceRated(all, season, round) ==
    LET raceRatings == getRaceRatings(all, season, round) IN
    raceRatings # None /\ raceRatings[1].completed

(***************************************************************************)
(* Writes: the value each operation hands to localStorage.setItem          *)
(***************************************************************************)
Without(f, k) == [x \in DOMAIN f \ {k} |-> f[x]]
With(f, k, v) == [x \in DOMAIN f \cup {k} |-> IF x = k THEN v ELSE f[x]]

\* the slip of pushing without looking for an existing record of the round
saveRaceRatingsValue_push(all, season, round, ratings) ==
    LET races == IF season \in DOMAIN all THEN all[season].races ELSE <<>>
        raceRatings == [round |-> round, ratings |-> ratings, completed |-> TRUE]
    IN With(all, season, [season |-> season, races |-> Append(races, raceRatings)])

saveRaceRatingsValue(all, season, round, ratings) ==
    LET races == IF season \in DOMAIN all THEN all[season].races ELSE <<>>
        existingIndex == findIndexRound(races, round)
        raceRatings == [round |-> round, ratings |-> ratings, completed |-> TRUE]
        races2 == IF existingIndex > 0
                  THEN [races EXCEPT ![existingIndex] = raceRatings]
                  ELSE Append(races, raceRatings)
        entry == IF season \in DOMAIN all
                 THEN [all[season] EXCEPT !.races = races2]
                 ELSE [season |-> season, races |-> races2]
    IN With(all, season, entry)

saveQuickRatingsValue(allQuick, season, ratings) == With(allQuick, season, ratings)

\* the slip of dropping the whole key, as clearAllRatings does
clearSeasonRatingsValue_all(all, season) == [x \in {} |-> <<>>]

clearSeasonRatingsValue(all, season) == Without(all, season)

clearQuickRatingsValue(allQuick, season) == Without(allQuick, season)

(***************************************************************************)
(* calculateAverages                                                       *)
(***************************************************************************)
\* `${rating.driverId}_${rating.constructorId}`
compositeKey(rating) == rating.driverId \o "_" \o rating.constructorId

\* position of the key in the insertion-ordered Map, 0 when absent
mapIndex(map, key) ==
    IF \E i \in 1..Len(map) : map[i].key = key
    THEN CHOOSE i \in 1..Len(map) : map[i].key = key
    ELSE 0

\* the inner loop over race.ratings: create the entry on first sight of the
\* key, then push the rating and count the race
RECURSIVE addRatings(_, _)
addRatings(map, ratings) ==
    IF ratings = <<>> THEN map
    ELSE LET rating == Head(ratings)
             key == compositeKey(rating)
             map1 == IF mapIndex(map, key) = 0
                     THEN Append(map, [key |-> key,
                                       driverId |-> rating.driverId,
                                       constructorId |-> rating.constructorId,
                                       averageRating |-> 0,
                                       totalRaces |-> 0,
                                       ratings |-> <<>>])
                     ELSE map
             i == mapIndex(map1, key)
             map2 == [map1 EXCEPT ![i].ratings = Append(@, rating.rating),
                                  ![i].totalRaces = @ + 1]
         IN addRatings(map2, Tail(ratings))

\* the outer loop over seasonRatings.races, skipping the races not completed
RECURSIVE addRaces(_, _)
addRaces(map, races) ==
    IF races = <<>> THEN map
    ELSE LET race == Head(races) IN
         addRaces(IF race.completed THEN addRatings(map, race.ratings) ELSE map,
                  Tail(races))

RECURSIVE SumSeq(_)
SumSeq(s) == IF s = <<>> THEN 0 ELSE Head(s) + SumSeq(Tail(s))

\* 2^k modulo 25, for k in 0..19 (2 has order 20 modulo 25)
RECURSIVE pow2mod25(_)
pow2mod25(k) == IF k = 0 THEN 1 ELSE (2 * pow2mod25(k - 1)) % 25

\* the binary exponent e of t / 25: 2^e <= t / 25 < 2^(e + 1)
RECURSIVE exponent25(_)
exponent25(t) ==
    IF t >= 50 THEN exponent25(t \div 2) + 1
    ELSE IF t < 25 THEN exponent25(2 * t) - 1
    ELSE 0

\* The double nearest to t / 200, for t > 0, against t / 200 itself: the 53-bit
\* significand is t * 2^(52 - e) / 25 rounded to an integer, so the remainder
\* of t * 2^(52 - e) modulo 25 tells whether the double is the quotient (0),
\* lies below it (1..12) or above it (13..24).
doubleNotBelow(t) ==
    LET r == ((t % 25) * pow2mod25((52 - exponent25(t)) % 20)) % 25
    IN r = 0 \/ r >= 13

\* parseFloat((sum / n).toFixed(2)) on hundredths, for sums whose double is
\* exact (ratings that are multiples of 0.25).  sum / n is the double nearest
\* to the quotient; toFixed takes the two-decimal value nearest to that double,
\* and the larger one when the double lies exactly between two.  When the
\* quotient itself lies between two (t / 200 with t odd) the side the double
\* fell on decides: 0.625 gives 0.63, 1.025 gives 1.02.
toFixed2(sum, n) ==
    IF (2 * sum) % (2 * n) = n
    THEN IF doubleNotBelow((2 * sum) \div n) THEN sum \div n + 1 ELSE sum \div n
    ELSE (2 * sum + n) \div (2 * n)

withAverage(entry) ==
    [driverId |-> entry.driverId,
     constructorId |-> entry.constructorId,
     averageRating |-> toFixed2(SumSeq(entry.ratings), Len(entry.ratings)),
     totalRaces |-> entry.totalRaces,
     ratings |-> entry.ratings]

\* results.sort((a, b) => b.averageRating - a.averageRating): a stable sort
RECURSIVE insertByAverage(_, _)
insertByAverage(sorted, row) ==
    IF sorted = <<>> THEN <<row>>
    ELSE IF Head(sorted).averageRating >= row.averageRating
         THEN <<Head(sorted)>> \o insertByAverage(Tail(sorted), row)
         ELSE <<row>> \o sorted

RECURSIVE sortByAverageDesc(_)
sortByAverageDesc(rows) ==
    IF rows = <<>> THEN <<>>
    ELSE insertByAverage(sortByAverageDesc(SubSeq(rows, 1, Len(rows) - 1)),
                         rows[Len(rows)])

quickRow(rating) ==
    [driverId |-> rating.driverId,
     constructorId |-> rating.constructorId,
     averageRating |-> rating.rating,
     totalRaces |-> 1,
     ratings |-> <<rating.rating>>]

\* the first branch is taken when the season has any race record at all
useRaceRatings(seasonRatings) ==
    seasonRatings # None /\ Len(seasonRatings[1].races) > 0

calculateAverages(all, allQuick, season) ==
    LET seasonRatings == getSeasonRatings(all, season)
        quickRatings == getQuickRatings(allQuick, season)
    IN IF useRaceRatings(seasonRatings)
       THEN LET map == addRaces(<<>>, seasonRatings[1].races)
            IN sortByAverageDesc([i \in 1..Len(map) |-> withAverage(map[i])])
       ELSE IF quickRatings # None /\ Len(quickRatings[1]) > 0
            THEN sortByAverageDesc([i \in 1..Len(quickRatings[1]) |->
                                        quickRow(quickRatings[1][i])])
            ELSE <<>>

(***************************************************************************)
(* exportRatings / importRatings                                           *)
(***************************************************************************)
\* A text is either not parseable as JSON or carries the parsed document.
Garbage == [valid |-> FALSE]
JsonText(data) == [valid |-> TRUE, data |-> data]

\* the slip of exporting the race ratings alone
exportRatings_racesOnly(all, allQuick, season) ==
    JsonText([version |-> 1,
              season |-> season,
              raceRatings |-> getSeasonRatings(all, season),
              quickRatings |-> None])

\* exportDate (the wall clock) is not read back by importRatings
exportRatings(all, allQuick, season) ==
    JsonText([version |-> 1,
              season |-> season,
              raceRatings |-> getSeasonRatings(all, season),
              quickRatings |-> getQuickRatings(allQuick, season)])

\* !data.season
hasSeason(data) == "season" \in DOMAIN data /\ data.season # ""

\* data.raceRatings && data.raceRatings.races
importsRaces(data) ==
    /\ "raceRatings" \in DOMAIN data
    /\ data.raceRatings # None
    /\ "races" \in DOMAIN data.raceRatings[1]

\* data.quickRatings && data.quickRatings.length > 0
importsQuick(data) ==
    /\ "quickRatings" \in DOMAIN data
    /\ data.quickRatings # None
    /\ Len(data.quickRatings[1]) > 0

ImportFailure == [success |-> FALSE]

\* A run of an operation meets its setItem calls in order; w lists, for the
\* calls it reaches, whether each goes through (TRUE) or throws (FALSE).
Outcomes(n) ==
    IF n = 0 THEN {<<>>}
    ELSE IF n = 1 THEN {<<FALSE>>, <<TRUE>>}
    ELSE {<<FALSE>>, <<TRUE, FALSE>>, <<TRUE, TRUE>>}

AllWritten(w) == \A i \in 1..Len(w) : w[i]

\* The race-ratings setItem sits directly in the try block of importRatings:
\* its throw ends the import with the failure result.  The quick-ratings
\* setItem sits in saveQuickRatings, which swallows the throw.
importWrites(text) ==
    IF ~text.valid \/ ~hasSeason(text.data) THEN 0
    ELSE (IF importsRaces(text.data) THEN 1 ELSE 0)
         + (IF importsQuick(text.data) THEN 1 ELSE 0)

\* importRatings past the validation of the season field
importDocument(all, allQuick, data, w) ==
    IF importsRaces(data) /\ ~w[1]
    THEN [all |-> all, allQuick |-> allQuick, result |-> ImportFailure]
    ELSE [all |-> IF importsRaces(data)
                  THEN With(all, data.season, data.raceRatings[1])
                  ELSE all,
          allQuick |-> IF importsQuick(data) /\ w[Len(w)]
                       THEN saveQuickRatingsValue(allQuick, data.season,
                                                  data.quickRatings[1])
                       ELSE allQuick,
          result |-> [success |-> TRUE,
                      season |-> data.season,
                      racesImported |->
                          IF importsRaces(data)
                          THEN Len(data.raceRatings[1].races)
                          ELSE 0]]

\* the slip of leaving out the check of the season field
importRatings_unchecked(all, allQuick, text, w) ==
    IF ~text.valid
    THEN [all |-> all, allQuick |-> allQuick, result |-> ImportFailure]
    ELSE IF ~hasSeason(text.data)
         THEN [all |-> all, allQuick |-> allQuick,
               result |-> [success |-> TRUE, season |-> "undefined",
                           racesImported |-> 0]]
         ELSE importDocument(all, allQuick, text.data, w)

importRatings(all, allQuick, text, w) ==
    IF ~text.valid \/ ~hasSeason(text.data)
    THEN [all |-> all, allQuick |-> allQuick, result |-> ImportFailure]
    ELSE importDocument(all, allQuick, text.data, w)

(***************************************************************************)
(* Rating store: state and operations                                      *)
(*                                                                         *)
(* last describes the operation that led to the state: its arguments, the  *)
(* outcomes of its setItem calls, its result, and (pre) what the season it *)
(* names held before.                                                      *)
(***************************************************************************)
SeasonState(all, allQuick, season) ==
    [races |-> getSeasonRatings(all, season),
     quick |-> getQuickRatings(allQuick, season)]

Pre(season) == SeasonState(allRatings, allQuickRatings, season)

Empty == [x \in {} |-> <<>>]

StoreInit ==
    /\ allRatings = Empty
    /\ allQuickRatings = Empty
    /\ last = [op |-> "init"]
    /\ exported = None

SaveRaceRatings(season, round, ratings, w) ==
    /\ allRatings' = IF w[1]
                     THEN saveRaceRatingsValue(allRatings, season, round, ratings)
                     ELSE allRatings
    /\ last' = [op |-> "saveRaceRatings", season |-> season, round |-> round,
                ratings |-> ratings, writes |-> w, pre |-> Pre(season)]
    /\ UNCHANGED <<allQuickRatings, exported>>
    /\ UNCHANGED nonStoreVars

SaveQuickRatings(season, ratings, w) ==
    /\ allQuickRatings' = IF w[1]
                          THEN saveQuickRatingsValue(allQuickRatings, season, ratings)
                          ELSE allQuickRatings
    /\ last' = [op |-> "saveQuickRatings", season |-> season,
                ratings |-> ratings, writes |-> w, pre |-> Pre(season)]
    /\ UNCHANGED <<allRatings, exported>>
    /\ UNCHANGED nonStoreVars

\* both setItem calls sit in one try block: the second is reached only when
\* the first went through
ClearSeasonRatings(season, w) ==
    /\ allRatings' = IF w[1]
                     THEN clearSeasonRatingsValue(allRatings, season)
                     ELSE allRatings
    /\ allQuickRatings' = IF AllWritten(w)
                          THEN clearQuickRatingsValue(allQuickRatings, season)
                          ELSE allQuickRatings
    /\ last' = [op |-> "clearSeasonRatings", season |-> season,
                writes |-> w, pre |-> Pre(season)]
    /\ UNCHANGED exported
    /\ UNCHANGED nonStoreVars

\* localStorage.removeItem(STORAGE_KEY): the race ratings of every season go,
\* the quick ratings live under QUICK_RATINGS_KEY, which is not touched
clearAllRatingsValue(all) == Empty

ClearAllRatings(w) ==
    /\ allRatings' = IF w[1] THEN clearAllRatingsValue(allRatings) ELSE allRatings
    /\ last' = [op |-> "clearAllRatings", writes |-> w]
    /\ UNCHANGED <<allQuickRatings, exported>>
    /\ UNCHANGED nonStoreVars

ImportRatings(text, w) ==
    LET r == importRatings(allRatings, allQuickRatings, text, w) IN
    /\ allRatings' = r.all
    /\ allQuickRatings' = r.allQuick
    /\ last' = [op |-> "importRatings", text |-> text, result |-> r.result,
                writes |-> w,
                pre |-> IF r.result.success THEN Some(Pre(r.result.season))
                        ELSE None]
    /\ UNCHANGED exported
    /\ UNCHANGED nonStoreVars

\* the export handler: the text leaves the program as a file; `at` remembers
\* what the season held when the file was made
ExportRatings(season) ==
    /\ exported' = Some([season |-> season,
                         text |-> exportRatings(allRatings, allQuickRatings, season),
                         at |-> Pre(season)])
    /\ last' = [op |-> "exportRatings", season |-> season]
    /\ UNCHANGED <<allRatings, allQuickRatings>>
    /\ UNCHANGED nonStoreVars

\* a view renders the averages of a season
CalculateAverages(season) ==
    /\ last' = [op |-> "calculateAverages", season |-> season,
                result |-> calculateAverages(allRatings, allQuickRatings, season)]
    /\ UNCHANGED <<allRatings, allQuickRatings, exported>>
    /\ UNCHANGED nonStoreVars

(***************************************************************************)
(* getRaceByRaceMatrix                                                     *)
(***************************************************************************)
\* parseInt(round) on the decimal text of a round
parseRound(round) == CHOOSE n \in 0..30 : ToString(n) = round

\* the slip of leaving the races in the order of the store
sortByRound_stored(races) == races

\* [...races].sort((a, b) => parseInt(a.round) - parseInt(b.round)): the sort
\* is stable, so a race comes after the races of a smaller round and after
\* the earlier races of its own round
sortByRound(races) ==
    LET rank(k) == Cardinality({j \in 1..Len(races) :
                       \/ parseRound(races[j].round) < parseRound(races[k].round)
                       \/ /\ parseRound(races[j].round) = parseRound(races[k].round)
                          /\ j <= k})
    IN [i \in 1..Len(races) |-> races[CHOOSE k \in 1..Len(races) : rank(k) = i]]

\* the passes of the two nested loops: <<i, k>> is rating k of race i
matrixCells(races) ==
    UNION {{<<i, k>> : k \in 1..Len(races[i].ratings)} : i \in 1..Len(races)}

\* the order in which the loops reach the passes
cellBefore(p, q) == p[1] < q[1] \/ (p[1] = q[1] /\ p[2] < q[2])

\* The rows of driverMap after the loops, in the order of insertion: a row is
\* made at the first pass that meets the driver, with the constructor of that
\* pass; raceRatings[race.round] = rating.rating is done at every pass, so a
\* round keeps the rating of the last pass of the driver in it.
driverRows(races) ==
    LET cells == matrixCells(races)
        driverAt(p) == races[p[1]].ratings[p[2]].driverId
        first == {p \in cells : \A q \in cells : cellBefore(q, p) => driverAt(q) # driverAt(p)}
        nth(i) == CHOOSE p \in first : Cardinality({q \in first : cellBefore(q, p)}) = i - 1
        row(p) ==
            LET mine == {q \in cells : driverAt(q) = driverAt(p)}
                lastIn(round) ==
                    CHOOSE q \in mine :
                        /\ races[q[1]].round = round
                        /\ \A q2 \in mine :
                              races[q2[1]].round = round => ~cellBefore(q, q2)
            IN [driverId |-> driverAt(p),
                constructorId |-> races[p[1]].ratings[p[2]].constructorId,
                totalAverage |-> 0,
                raceRatings |-> [round \in {races[q[1]].round : q \in mine} |->
                                    races[lastIn(round)[1]].ratings[lastIn(round)[2]].rating]]
    IN [i \in 1..Cardinality(first) |-> row(nth(i))]

RECURSIVE SumValues(_)
SumValues(f) ==
    IF DOMAIN f = {} THEN 0
    ELSE LET k == CHOOSE k \in DOMAIN f : TRUE
         IN f[k] + SumValues([x \in DOMAIN f \ {k} |-> f[x]])

withTotalAverage(row) ==
    [row EXCEPT !.totalAverage =
        IF DOMAIN row.raceRatings # {}
        THEN toFixed2(SumValues(row.raceRatings), Cardinality(DOMAIN row.raceRatings))
        ELSE 0]

RECURSIVE insertByTotal(_, _)
insertByTotal(sorted, row) ==
    IF sorted = <<>> THEN <<row>>
    ELSE IF Head(sorted).totalAverage >= row.totalAverage
         THEN <<Head(sorted)>> \o insertByTotal(Tail(sorted), row)
         ELSE <<row>> \o sorted

RECURSIVE sortByTotalDesc(_)
sortByTotalDesc(rows) ==
    IF rows = <<>> THEN <<>>
    ELSE insertByTotal(sortByTotalDesc(SubSeq(rows, 1, Len(rows) - 1)),
                       rows[Len(rows)])

getRaceByRaceMatrix(all, season) ==
    LET seasonRatings == getSeasonRatings(all, season) IN
    IF seasonRatings = None \/ Len(seasonRatings[1].races) = 0
    THEN [races |-> <<>>, drivers |-> <<>>]
    ELSE LET sortedRaces == sortByRound(seasonRatings[1].races)
             rows == driverRows(sortedRaces)
         IN [races |-> [i \in 1..Len(sortedRaces) |-> [round |-> sortedRaces[i].round]],
             drivers |-> sortByTotalDesc([i \in 1..Len(rows) |->
                                             withTotalAverage(rows[i])])]

GetRaceByRaceMatrix(season) ==
    /\ last' = [op |-> "getRaceByRaceMatrix", season |-> season,
                result |-> getRaceByRaceMatrix(allRatings, season)]
    /\ UNCHANGED <<allRatings, allQuickRatings, exported>>
    /\ UNCHANGED nonStoreVars

(***************************************************************************)
(* getAllSeasonResults / getAllSeasonQualifying                            *)
(*                                                                         *)
(* A provider race is [round, Results], a result [driverId, constructorId, *)
(* positionText, position] with position the decimal text of the rank; a   *)
(* qualifying session is [round, QualifyingResults].  A finishing position *)
(* that is null is None.                                                   *)
(***************************************************************************)
RawResult(d, c, positionText, position) ==
    [driverId |-> d, constructorId |-> c,
     positionText |-> positionText, position |-> position]

RawQualifying(d, c, position) ==
    [driverId |-> d, constructorId |-> c, position |-> position]

MaxPosition == 3

\* the number of fetchData runs of a mounted view that are followed
MaxFetches == 3

\* the calls of the remote data client and the clock steps that are followed
MaxCalls == 2
MaxTicks == 2
\* the collections served hold at most MaxPages full pages
MaxPages == 3
\* the rating modals followed
MaxFlows == 2
\* the races of a calendar
MaxCalendar == 2

\* parseInt on the decimal texts "0" .. MaxPosition
parseInt(text) == CHOOSE n \in 0..(MaxPosition + 1) : ToString(n) = text

NotClassified == {"R", "D", "E", "W", "F", "N"}

isClassified(positionText) == positionText \notin NotClassified

\* the slip of reading the rank without looking at positionText
classifiedPosition_rank(result) == Some(parseInt(result.position))

classifiedPosition(result) ==
    IF isClassified(result.positionText) THEN Some(parseInt(result.position)) ELSE None

\* parseFloat(result.points) || 0 on the text of a whole number of points; a
\* result without the field gives NaN, hence 0
parseFloat(text) == CHOOSE n \in 0..30 : ToString(n) = text

pointsOf(result) ==
    IF "points" \in DOMAIN result THEN parseFloat(result.points) ELSE 0

\* the rows pushed by the nested forEach loops: those of the first race, then
\* those of the second, and so on
RECURSIVE Flatten(_)
Flatten(rowsPerRace) ==
    IF Len(rowsPerRace) = 0 THEN <<>>
    ELSE IF Len(rowsPerRace) = 1 THEN rowsPerRace[1]
    ELSE LET half == Len(rowsPerRace) \div 2
         IN Flatten(SubSeq(rowsPerRace, 1, half))
            \o Flatten(SubSeq(rowsPerRace, half + 1, Len(rowsPerRace)))

getAllSeasonResults(allRaces) ==
    Flatten([k \in 1..Len(allRaces) |->
        [i \in 1..Len(allRaces[k].Results) |->
            [round |-> allRaces[k].round,
             driverId |-> allRaces[k].Results[i].driverId,
             constructorId |-> allRaces[k].Results[i].constructorId,
             position |-> classifiedPosition(allRaces[k].Results[i]),
             points |-> pointsOf(allRaces[k].Results[i])]]])

getAllSeasonQualifying(allQualifying) ==
    Flatten([k \in 1..Len(allQualifying) |->
        [i \in 1..Len(allQualifying[k].QualifyingResults) |->
            [round |-> allQualifying[k].round,
             driverId |-> allQualifying[k].QualifyingResults[i].driverId,
             constructorId |-> allQualifying[k].QualifyingResults[i].constructorId,
             position |-> parseInt(allQualifying[k].QualifyingResults[i].position)]]])

(***************************************************************************)
(* calculateH2H                                                            *)
(***************************************************************************)
\* Array.prototype.find: the first element that matches, None when none does
find(results, round, driverId, constructorId) ==
    LET hits == SelectSeq(results, LAMBDA r : /\ r.round = round
                                              /\ r.driverId = driverId
                                              /\ r.constructorId = constructorId)
    IN IF hits = <<>> THEN None ELSE Some(Head(hits))

\* the insertion-ordered Set of the rounds in which either driver has a race
\* result under the constructor
RECURSIVE roundsOf(_, _, _, _)
roundsOf(results, driverAId, driverBId, constructorId) ==
    IF results = <<>> THEN <<>>
    ELSE LET front == roundsOf(SubSeq(results, 1, Len(results) - 1),
                               driverAId, driverBId, constructorId)
             r == results[Len(results)]
         IN IF /\ r.constructorId = constructorId
               /\ r.driverId \in {driverAId, driverBId}
               /\ \A i \in 1..Len(front) : front[i] # r.round
            THEN Append(front, r.round)
            ELSE front

\* raceA?.position && raceB?.position: each found with a position that is
\* neither null nor 0
bothFinished(raceA, raceB) ==
    /\ raceA # None /\ raceA[1].position # None /\ raceA[1].position[1] # 0
    /\ raceB # None /\ raceB[1].position # None /\ raceB[1].position[1] # 0

NoStats ==
    [raceWinsA |-> 0, raceWinsB |-> 0, qualiWinsA |-> 0, qualiWinsB |-> 0,
     totalRaces |-> 0, totalQualis |-> 0]

\* the slip of comparing the qualifying only in the rounds both finished
h2hRound_finishers(acc, races, qualis, round, driverAId, driverBId, constructorId) ==
    LET raceA == find(races, round, driverAId, constructorId)
        raceB == find(races, round, driverBId, constructorId)
        qualiA == find(qualis, round, driverAId, constructorId)
        qualiB == find(qualis, round, driverBId, constructorId)
        counted == bothFinished(raceA, raceB)
        qualified == counted /\ qualiA # None /\ qualiB # None
    IN [raceWinsA |-> acc.raceWinsA +
            (IF counted /\ raceA[1].position[1] < raceB[1].position[1] THEN 1 ELSE 0),
        raceWinsB |-> acc.raceWinsB +
            (IF counted /\ raceB[1].position[1] < raceA[1].position[1] THEN 1 ELSE 0),
        totalRaces |-> acc.totalRaces + (IF counted THEN 1 ELSE 0),
        qualiWinsA |-> acc.qualiWinsA +
            (IF qualified /\ qualiA[1].position < qualiB[1].position THEN 1 ELSE 0),
        qualiWinsB |-> acc.qualiWinsB +
            (IF qualified /\ qualiB[1].position < qualiA[1].position THEN 1 ELSE 0),
        totalQualis |-> acc.totalQualis + (IF qualified THEN 1 ELSE 0)]

\* one pass of rounds.forEach
h2hRound(acc, races, qualis, round, driverAId, driverBId, constructorId) ==
    LET raceA == find(races, round, driverAId, constructorId)
        raceB == find(races, round, driverBId, constructorId)
        qualiA == find(qualis, round, driverAId, constructorId)
        qualiB == find(qualis, round, driverBId, constructorId)
        counted == bothFinished(raceA, raceB)
        qualified == qualiA # None /\ qualiB # None
    IN [raceWinsA |-> acc.raceWinsA +
            (IF counted /\ raceA[1].position[1] < raceB[1].position[1] THEN 1 ELSE 0),
        raceWinsB |-> acc.raceWinsB +
            (IF counted /\ raceB[1].position[1] < raceA[1].position[1] THEN 1 ELSE 0),
        totalRaces |-> acc.totalRaces + (IF counted THEN 1 ELSE 0),
        qualiWinsA |-> acc.qualiWinsA +
            (IF qualified /\ qualiA[1].position < qualiB[1].position THEN 1 ELSE 0),
        qualiWinsB |-> acc.qualiWinsB +
            (IF qualified /\ qualiB[1].position < qualiA[1].position THEN 1 ELSE 0),
        totalQualis |-> acc.totalQualis + (IF qualified THEN 1 ELSE 0)]

RECURSIVE h2hRounds(_, _, _, _, _, _, _)
h2hRounds(acc, races, qualis, rounds, driverAId, driverBId, constructorId) ==
    IF rounds = <<>> THEN acc
    ELSE h2hRounds(h2hRound(acc, races, qualis, Head(rounds),
                            driverAId, driverBId, constructorId),
                   races, qualis, Tail(rounds), driverAId, driverBId, constructorId)

\* the slip of reporting the size of the round set as the totals
calculateH2H_roundSet(races, qualis, driverAId, driverBId, constructorId) ==
    LET rounds == roundsOf(races, driverAId, driverBId, constructorId)
        stats == h2hRounds(NoStats, races, qualis, rounds,
                           driverAId, driverBId, constructorId)
    IN [stats EXCEPT !.totalRaces = Len(rounds), !.totalQualis = Len(rounds)]

calculateH2H(races, qualis, driverAId, driverBId, constructorId) ==
    h2hRounds(NoStats, races, qualis,
              roundsOf(races, driverAId, driverBId, constructorId),
              driverAId, driverBId, constructorId)

(***************************************************************************)
(* TeammateWars: state and steps                                           *)
(*                                                                         *)
(* The effect of the mounted view awaits the four fetches together; the    *)
(* constructor and driver standings only order the cards and are left out. *)
(* A fetch ends "ok" with the provider's data, "failed" (any failure but   *)
(* 429, which the season functions turn into an empty list), or            *)
(* "rate_limited"                                                          *)
(* (the RateLimitError reaches the view).                                  *)
(***************************************************************************)
NoData == [races |-> <<>>, qualifying |-> <<>>]

\* the provider's data of a season: that of "2024" is the variable provider,
\* every other season holds one race
Archive ==
    [races |-> <<[round |-> "1",
                  Results |-> <<[driverId |-> "norris", constructorId |-> "mclaren",
                                 positionText |-> "1", position |-> "1"]>>]>>,
     qualifying |-> <<>>]

providerOf(season) == IF season = "2024" THEN provider ELSE Archive

\* the season prop of the view: the effect runs once per value it takes
viewSeason == fetches[Len(fetches)]

\* the view is mounted on "2024" and its effect has started the first fetch
ViewInit ==
    /\ raceResults = <<>>
    /\ qualiResults = <<>>
    /\ raceStatus = "idle"
    /\ qualiStatus = "idle"
    /\ loading = TRUE
    /\ dataLoaded = FALSE
    /\ h2h = None
    /\ fetches = <<"2024">>
    /\ inflight = {1}
    /\ shown = 0

FetchOutcomes == {"ok", "failed", "rate_limited"}

\* fetchData run f from the Promise.allSettled on: nothing in it looks at
\* the season the view shows by now
FetchData(f, raceOutcome, qualiOutcome) ==
    /\ f \in inflight
    /\ raceResults' = IF raceOutcome = "ok"
                      THEN getAllSeasonResults(providerOf(fetches[f]).races)
                      ELSE <<>>
    /\ raceStatus' = IF raceOutcome = "rate_limited" THEN "rate_limited" ELSE "ok"
    /\ qualiResults' = IF qualiOutcome = "ok"
                       THEN getAllSeasonQualifying(providerOf(fetches[f]).qualifying)
                       ELSE <<>>
    /\ qualiStatus' = IF qualiOutcome = "rate_limited" THEN "rate_limited" ELSE "ok"
    /\ dataLoaded' = TRUE
    /\ loading' = FALSE
    /\ inflight' = inflight \ {f}
    /\ shown' = f
    /\ UNCHANGED <<provider, h2h, fetches>>
    /\ UNCHANGED nonViewVars

\* the season prop changes: the effect runs fetchData up to its await
SeasonChanged(season) ==
    /\ season # viewSeason
    /\ Len(fetches) < MaxFetches
    /\ fetches' = Append(fetches, season)
    /\ inflight' = inflight \cup {Len(fetches) + 1}
    /\ loading' = TRUE
    /\ raceStatus' = "idle"
    /\ qualiStatus' = "idle"
    /\ UNCHANGED <<provider, raceResults, qualiResults, dataLoaded, h2h, shown>>
    /\ UNCHANGED nonViewVars

\* a card is rendered for two drivers of a team
RenderH2H(driverAId, driverBId, constructorId) ==
    /\ dataLoaded
    /\ h2h' = Some([driverAId |-> driverAId, driverBId |-> driverBId,
                    constructorId |-> constructorId,
                    stats |-> calculateH2H(raceResults, qualiResults,
                                           driverAId, driverBId, constructorId)])
    /\ UNCHANGED <<provider, raceResults, qualiResults, raceStatus, qualiStatus,
                   loading, dataLoaded, fetches, inflight, shown>>
    /\ UNCHANGED nonViewVars

\* the card's sections and their footers
showRaceH2H(status, stats) == status = "ok" /\ stats.totalRaces > 0
showQualiH2H(status, stats) == status = "ok" /\ stats.totalQualis > 0

qualiFooter(status) ==
    IF status = "rate_limited" THEN "Qualifying data unavailable (API limit 429)"
    ELSE IF status = "error" THEN "Qualifying data unavailable"
    ELSE "No qualifying data"

raceFooter(status) ==
    IF status = "rate_limited" THEN "Race data unavailable (API limit 429)"
    ELSE IF status = "error" THEN "Race data unavailable"
    ELSE "No race data"

(***************************************************************************)
(* Remote data client (src/api/f1Api.ts)                                   *)
(*                                                                         *)
(* One call of a season function is followed at a time.  The call stands   *)
(* at an await: "page" (a page request of fetchAllPaginated, or the sleep  *)
(* before its retry), "standings" (the request of getConstructorStandings) *)
(* or "driverStandings" (getDriverStandings inside getDriverSeasonStats).  *)
(* The provider answers a request "ok", "429" or "error" (any failure      *)
(* other than HTTP 429).  The provider's collection of an endpoint is the  *)
(* list of its records 1..total, served in pages of at most limit records. *)
(* The clock starts on 31 December 2024, 00:00.                            *)
(***************************************************************************)
limit == 100
maxRetries == 2
currentMs == 2 * 60 * 1000
pastMs == 24 * 60 * 60 * 1000
mediumMs == 10 * 60 * 1000
\* the year of the instant t: the first day of the clock is the last of 2024
getFullYear(t) == 2024 + (((t \div pastMs) + 365) \div 366)

\* the seasons written as a year of four digits
Years == 1950..2100

\* parseInt(season, 10): the number of a year, None for NaN
parseSeason(season) ==
    IF \E n \in Years : ToString(n) = season
    THEN Some(CHOOSE n \in Years : ToString(n) = season)
    ELSE None

getSeasonCacheTtlMs(season, t) ==
    LET seasonNum == parseSeason(season) IN
    IF seasonNum = None THEN mediumMs
    ELSE IF seasonNum[1] >= getFullYear(t) THEN currentMs ELSE pastMs

\* endpoint.match(/^\/(\d{4})\//) on the endpoint of a season
getEndpointSeason(season) ==
    IF \E n \in Years : ToString(n) = season THEN Some(season) ELSE None

\* the ttlMs of fetchAllPaginated
paginatedTtlMs(season, t) ==
    LET endpointSeason == getEndpointSeason(season) IN
    IF endpointSeason # None THEN getSeasonCacheTtlMs(endpointSeason[1], t)
    ELSE mediumMs

endpointOf(season, path) == "/" \o season \o "/" \o path \o ".json"
paginatedKey(season, path) == "jolpica:paginated:" \o endpointOf(season, path)
standingsKey(season) == "jolpica:constructor-standings:" \o season

CacheRecord(expiresAt, data) == [expiresAt |-> expiresAt, data |-> data]

\* the slip of expiring the entry at the instant of expiresAt itself
getCache_strict(c, key, t) ==
    IF key \notin DOMAIN c THEN None
    ELSE IF t >= c[key].expiresAt THEN None
    ELSE Some(c[key].data)

getCache(c, key, t) ==
    IF key \notin DOMAIN c THEN None
    ELSE IF t > c[key].expiresAt THEN None
    ELSE Some(c[key].data)

\* the slip of leaving out the fallback to an expired entry
getStaleCache_none(c, key) == None

getStaleCache(c, key) ==
    IF key \notin DOMAIN c THEN None ELSE Some(c[key].data)

\* the slip of taking the TTL itself for the instant of expiry
setCache_ttl(c, key, data, ttlMs, t, written) ==
    IF written THEN With(c, key, CacheRecord(ttlMs, data)) ELSE c

\* the setItem of setCache may throw; setCache then leaves the entry alone
setCache(c, key, data, ttlMs, t, written) ==
    IF written THEN With(c, key, CacheRecord(t + ttlMs, data)) ELSE c

\* what a function call ends with
Returned(value) == [kind |-> "returned", value |-> value]
Thrown(error) == [kind |-> "thrown", error |-> error]

\* --- the provider ---
Min(a, b) == IF a < b THEN a ELSE b

\* record i of the collection of a path: one race with one entry
ProviderRecord(path, i) ==
    IF path = "qualifying"
    THEN [round |-> ToString(i),
          QualifyingResults |-> <<RawQualifying("norris", "mclaren", "1")>>]
    ELSE IF path = "sprint"
    THEN [round |-> ToString(i),
          SprintResults |-> <<RawResult("norris", "mclaren", "1", "1")>>]
    ELSE [round |-> ToString(i),
          Results |-> <<RawResult("norris", "mclaren", "1", "1")>>]

\* the answer to ?limit=..&offset=..: MRData.RaceTable.Races and MRData.total
ProviderPage(path, total, offset) ==
    [Races |-> [k \in 1..Min(limit, total - offset) |->
                   ProviderRecord(path, offset + k)],
     total |-> ToString(total)]

\* parseInt on the text of a count
parseCount(text) == CHOOSE n \in 0..(MaxPages * limit) : ToString(n) = text

ProviderConstructorStandings ==
    <<[constructorId |-> "mclaren", position |-> "1", points |-> "3", wins |-> "2"]>>

ProviderDriverStandings ==
    <<[driverId |-> "norris", Constructors |-> <<"mclaren">>,
       position |-> "1", points |-> "3", wins |-> "2"]>>

\* --- the season functions past their fetches ---
getAllSeasonSprints(allSprints) ==
    Flatten([k \in 1..Len(allSprints) |->
        [i \in 1..Len(allSprints[k].SprintResults) |->
            [round |-> allSprints[k].round,
             driverId |-> allSprints[k].SprintResults[i].driverId,
             constructorId |-> allSprints[k].SprintResults[i].constructorId,
             position |-> classifiedPosition(allSprints[k].SprintResults[i]),
             points |-> pointsOf(allSprints[k].SprintResults[i])]]])

normalizeStandings(standings) ==
    [i \in 1..Len(standings) |->
        [constructorId |-> standings[i].constructorId,
         position |-> parseInt(standings[i].position),
         points |-> parseInt(standings[i].points),
         wins |-> parseInt(standings[i].wins)]]

\* podiums: every result of the driver whose position parses to 1, 2 or 3
podiumsOf(allRaces, driverId) ==
    Len(SelectSeq(Flatten([k \in 1..Len(allRaces) |-> allRaces[k].Results]),
                  LAMBDA r : r.driverId = driverId /\ parseInt(r.position) \in 1..3))

\* the slip of counting every session the driver took part in
polesOf_entered(allQualifying, driverId) ==
    Cardinality({k \in 1..Len(allQualifying) :
        SelectSeq(allQualifying[k].QualifyingResults,
                  LAMBDA r : r.driverId = driverId) # <<>>})

\* poles: the sessions whose first entry of position "1" is the driver's
polesOf(allQualifying, driverId) ==
    Cardinality({k \in 1..Len(allQualifying) :
        LET first == SelectSeq(allQualifying[k].QualifyingResults,
                               LAMBDA r : r.position = "1")
        IN first # <<>> /\ Head(first).driverId = driverId})

driverSeasonStats(standings, allRaces, allQualifying) ==
    [i \in 1..Len(standings) |->
        [driverId |-> standings[i].driverId,
         constructorId |-> IF standings[i].Constructors = <<>> THEN "unknown"
                           ELSE standings[i].Constructors[1],
         position |-> standings[i].position,
         points |-> standings[i].points,
         wins |-> parseInt(standings[i].wins),
         poles |-> polesOf(allQualifying, standings[i].driverId),
         podiums |-> podiumsOf(allRaces, standings[i].driverId)]]

\* --- the call in progress ---
PaginatedFns == {"getAllSeasonResults", "getAllSeasonQualifying", "getAllSeasonSprints"}
SeasonFns == PaginatedFns \cup {"getConstructorStandings", "getDriverSeasonStats"}

pathOf(fn) ==
    IF fn = "getAllSeasonQualifying" THEN "qualifying"
    ELSE IF fn = "getAllSeasonSprints" THEN "sprint"
    ELSE "results"

\* n: the calls made so far; ttlMs: the TTL chosen when the fetch began; total: the size of the provider's collections
\* during the call; kept: what getDriverSeasonStats has awaited so far; log:
\* the requests answered so far; fetched: what each fetchAllPaginated (or the
\* fetch of getConstructorStandings) of the call ended with
NewCall(n, fn, season, total) ==
    [pc |-> "idle", n |-> n, fn |-> fn, season |-> season, total |-> total,
     path |-> "", offset |-> 0, attempt |-> 0, ttlMs |-> 0, allRaces |-> <<>>,
     kept |-> <<>>, log |-> <<>>, fetched |-> <<>>, result |-> None,
     written |-> FALSE]

NoCall == NewCall(0, "", "", 0)

ClientInit ==
    /\ now = 0
    /\ cache = [k \in {} |-> <<>>]
    /\ call = NoCall

\* fetchAllPaginated up to its first await
startPaginated(c, path, t) ==
    [c EXCEPT !.pc = "page", !.path = path, !.offset = 0, !.attempt = 0,
              !.ttlMs = paginatedTtlMs(c.season, t), !.allRaces = <<>>]

\* the url awaited
awaited(c) ==
    IF c.pc = "page"
    THEN [endpoint |-> endpointOf(c.season, c.path), offset |-> c.offset]
    ELSE IF c.pc = "standings"
    THEN [endpoint |-> endpointOf(c.season, "constructorStandings"), offset |-> 0]
    ELSE [endpoint |-> endpointOf(c.season, "driverStandings"), offset |-> 0]

\* the catch of getAllSeasonResults, getAllSeasonQualifying, getAllSeasonSprints
seasonRows(fn, fetched) ==
    IF fetched.kind = "returned"
    THEN Returned(IF fn = "getAllSeasonQualifying"
                  THEN getAllSeasonQualifying(fetched.value)
                  ELSE IF fn = "getAllSeasonSprints"
                  THEN getAllSeasonSprints(fetched.value)
                  ELSE getAllSeasonResults(fetched.value))
    ELSE IF fetched.error = "RateLimitError" THEN Thrown("RateLimitError")
    ELSE Returned(<<>>)

\* the caller of fetchAllPaginated goes on with what it ended with
afterPaginated(c, fetched, t) ==
    LET d == [c EXCEPT !.fetched = Append(@, fetched)] IN
    IF d.fn \in PaginatedFns
    THEN [d EXCEPT !.pc = "done", !.result = Some(seasonRows(d.fn, fetched))]
    ELSE \* getDriverSeasonStats: its catch turns every error into []
         IF fetched.kind = "thrown"
         THEN [d EXCEPT !.pc = "done", !.result = Some(Returned(<<>>))]
         ELSE IF d.path = "results"
         THEN startPaginated([d EXCEPT !.kept = Append(@, fetched.value)],
                             "qualifying", t)
         ELSE [d EXCEPT !.pc = "done",
                        !.result = Some(Returned(driverSeasonStats(
                                        d.kept[1], d.kept[2], fetched.value)))]

\* the slip of retrying whatever the failure was
rethrows_last(answer, attempt) == attempt = maxRetries

\* the catch of the retry loop: the failure leaves the loop unless it is a 429
\* with a retry left
rethrows(answer, attempt) == answer # "429" \/ attempt = maxRetries

\* the slip of asking for one more page when the last one ended the collection
hasMore_inclusive(offset, total, races) == offset <= total /\ Len(races) > 0

\* whether another page is asked for, offset being that of the next page
hasMore(offset, total, races) == offset < total /\ Len(races) > 0

\* fetchAllPaginated from the answer to its page request on, to its next
\* await or its end: the call and the cache afterwards
onPage(c, store, t, answer, written) ==
    LET key == paginatedKey(c.season, c.path) IN
    IF answer = "ok"
    THEN LET response == ProviderPage(c.path, c.total, c.offset)
             allRaces == c.allRaces \o response.Races
             offset == c.offset + limit
             total == parseCount(response.total)
         IN IF hasMore(offset, total, response.Races)
            THEN [call |-> [c EXCEPT !.allRaces = allRaces, !.offset = offset,
                                     !.attempt = 0],
                  cache |-> store]
            ELSE [call |-> afterPaginated([c EXCEPT !.allRaces = allRaces,
                                                    !.offset = offset,
                                                    !.written = written],
                                          Returned(allRaces), t),
                  cache |-> setCache(store, key, allRaces, c.ttlMs, t, written)]
    ELSE IF ~rethrows(answer, c.attempt)
    THEN [call |-> [c EXCEPT !.attempt = @ + 1], cache |-> store]
    ELSE IF answer = "429"
    THEN LET fresh == getCache(store, key, t)
             cached == IF fresh # None THEN fresh ELSE getStaleCache(store, key)
         IN [call |-> afterPaginated(c, IF cached # None
                                        THEN Returned(cached[1])
                                        ELSE Thrown("RateLimitError"), t),
             cache |-> store]
    ELSE [call |-> afterPaginated(c, Thrown("AxiosError"), t), cache |-> store]

\* getConstructorStandings from the answer to its request on
onStandings(c, store, t, answer, written) ==
    LET key == standingsKey(c.season)
        end(outcome) == [c EXCEPT !.pc = "done", !.fetched = Append(@, outcome),
                                  !.result = Some(outcome)]
    IN
    IF answer = "ok"
    THEN LET normalized == normalizeStandings(ProviderConstructorStandings)
         IN [call |-> [end(Returned(normalized)) EXCEPT !.written = written],
             cache |-> setCache(store, key, normalized, c.ttlMs, t, written)]
    ELSE IF ~rethrows(answer, c.attempt)
    THEN [call |-> [c EXCEPT !.attempt = @ + 1], cache |-> store]
    ELSE IF answer = "429"
    THEN LET stale == getStaleCache(store, key)
         IN [call |-> end(IF stale # None THEN Returned(stale[1])
                          ELSE Thrown("RateLimitError")),
             cache |-> store]
    ELSE [call |-> end(Returned(<<>>)), cache |-> store]

\* getDriverSeasonStats from the answer to getDriverStandings on
onDriverStandings(c, store, t, answer) ==
    LET standings == IF answer = "ok" THEN ProviderDriverStandings ELSE <<>>
    IN [call |-> startPaginated([c EXCEPT !.kept = <<standings>>], "results", t),
        cache |-> store]

\* a season function is called and runs to its first await (or to its end);
\* written tells whether the setItem of the call's last setCache went through
Call(fn, season, total) ==
    /\ call.pc \in {"idle", "done"}
    /\ call.n < MaxCalls
    /\ LET c == NewCall(call.n + 1, fn, season, total)
           cached == getCache(cache, standingsKey(season), now)
       IN call' =
            IF fn \in PaginatedFns THEN startPaginated(c, pathOf(fn), now)
            ELSE IF fn = "getDriverSeasonStats" THEN [c EXCEPT !.pc = "driverStandings"]
            ELSE IF cached # None
            THEN [c EXCEPT !.pc = "done", !.result = Some(Returned(cached[1]))]
            ELSE [c EXCEPT !.pc = "standings",
                           !.ttlMs = getSeasonCacheTtlMs(season, now)]
    /\ UNCHANGED <<now, cache>>
    /\ UNCHANGED nonClientVars

\* the provider answers the request awaited
Respond(answer, written) ==
    /\ call.pc \in {"page", "standings", "driverStandings"}
    /\ LET c == [call EXCEPT !.log = Append(@, [url |-> awaited(call),
                                                answer |-> answer])]
           next == IF call.pc = "page" THEN onPage(c, cache, now, answer, written)
                   ELSE IF call.pc = "standings"
                   THEN onStandings(c, cache, now, answer, written)
                   ELSE onDriverStandings(c, cache, now, answer)
       IN /\ call' = next.call
          /\ cache' = next.cache
    /\ UNCHANGED now
    /\ UNCHANGED nonClientVars

\* time passes: by the short TTL or by the long one
Tick(ms) ==
    /\ ms \in {currentMs, pastMs}
    /\ IF ms = currentMs
       THEN (now % pastMs) \div currentMs < MaxTicks
       ELSE now \div pastMs < MaxTicks
    /\ now' = now + ms
    /\ UNCHANGED <<cache, call>>
    /\ UNCHANGED nonClientVars

(***************************************************************************)
(* Rating modal (src/components/RatingModal.tsx)                           *)
(*                                                                         *)
(* A modal is opened on a race of season "2024"; loadDrivers awaits the    *)
(* race's drivers, then reads the stored ratings of the race; handleSave   *)
(* runs from the click to its end without an await.                        *)
(***************************************************************************)
ModalSeason == "2024"

Closed == [pc |-> "closed", round |-> "", drivers |-> <<>>, seen |-> Empty,
           ratings |-> <<>>, written |-> FALSE]

ModalInit == flows = [i \in 1..MaxFlows |-> Closed]

\* what getRaceDrivers answers for a race
RaceDrivers == <<[driverId |-> "hill", constructorId |-> "red_bull"]>>

\* existingRatings?.ratings.find(r => r.driverId === ...)?.rating || 0
existingRating(existingRatings, driverId) ==
    IF existingRatings = None THEN 0
    ELSE LET hits == SelectSeq(existingRatings[1].ratings,
                               LAMBDA r : r.driverId = driverId)
         IN IF hits = <<>> THEN 0 ELSE Head(hits).rating

\* the modal is mounted on a race: loadDrivers runs up to its await
OpenModal(i, round) ==
    /\ flows[i].pc = "closed"
    /\ flows' = [flows EXCEPT ![i] = [Closed EXCEPT !.pc = "loading", !.round = round]]
    /\ UNCHANGED <<storeVars, viewVars, clientVars, listVars, pageVars>>

\* loadDrivers from the answer of getRaceDrivers on; seen is the store as
\* getRaceRatings read it
DriversLoaded(i, ok) ==
    /\ flows[i].pc = "loading"
    /\ LET existingRatings == getRaceRatings(allRatings, ModalSeason, flows[i].round)
           driversWithRatings ==
               [k \in 1..Len(RaceDrivers) |->
                   [driverId |-> RaceDrivers[k].driverId,
                    constructorId |-> RaceDrivers[k].constructorId,
                    rating |-> existingRating(existingRatings, RaceDrivers[k].driverId)]]
       IN flows' = [flows EXCEPT ![i] =
                      [@ EXCEPT !.pc = "ready",
                                !.drivers = IF ok THEN driversWithRatings ELSE @,
                                !.seen = IF ok THEN allRatings ELSE @]]
    /\ UNCHANGED <<storeVars, viewVars, clientVars, listVars, pageVars>>

handleRatingChange(i, driverId, rating) ==
    /\ flows[i].pc = "ready"
    /\ flows' = [flows EXCEPT ![i].drivers =
                    [k \in 1..Len(@) |->
                        IF @[k].driverId = driverId
                        THEN [@[k] EXCEPT !.rating = rating] ELSE @[k]]]
    /\ UNCHANGED <<storeVars, viewVars, clientVars, listVars, pageVars>>

\* rating: d.rating || 5
ratingsOf(drivers) ==
    [k \in 1..Len(drivers) |->
        DriverRating(drivers[k].driverId, drivers[k].constructorId,
                     IF drivers[k].rating = 0 THEN 500 ELSE drivers[k].rating)]

\* the slip of writing back the store as it was read when the modal loaded
handleSave_seen(i, w) ==
    /\ flows[i].pc = "ready"
    /\ LET ratings == ratingsOf(flows[i].drivers) IN
       /\ allRatings' = IF w[1]
                        THEN saveRaceRatingsValue(flows[i].seen, ModalSeason,
                                                  flows[i].round, ratings)
                        ELSE allRatings
       /\ last' = [op |-> "saveRaceRatings", season |-> ModalSeason,
                   round |-> flows[i].round, ratings |-> ratings, writes |-> w,
                   pre |-> Pre(ModalSeason)]
       /\ flows' = [flows EXCEPT ![i] = [@ EXCEPT !.pc = "saved",
                                                  !.ratings = ratings,
                                                  !.written = w[1]]]
    /\ UNCHANGED <<allQuickRatings, exported>>
    /\ UNCHANGED <<viewVars, clientVars, listVars, pageVars>>

\* handleSave: saveRaceRatings, then onSave and onClose
handleSave(i, w) ==
    /\ flows[i].pc = "ready"
    /\ LET ratings == ratingsOf(flows[i].drivers) IN
       /\ allRatings' = IF w[1]
                        THEN saveRaceRatingsValue(allRatings, ModalSeason,
                                                  flows[i].round, ratings)
                        ELSE allRatings
       /\ last' = [op |-> "saveRaceRatings", season |-> ModalSeason,
                   round |-> flows[i].round, ratings |-> ratings, writes |-> w,
                   pre |-> Pre(ModalSeason)]
       /\ flows' = [flows EXCEPT ![i] = [@ EXCEPT !.pc = "saved",
                                                  !.ratings = ratings,
                                                  !.written = w[1]]]
    /\ UNCHANGED <<allQuickRatings, exported>>
    /\ UNCHANGED <<viewVars, clientVars, listVars, pageVars>>

(***************************************************************************)
(* Quick-rate modal (QuickRateModal, src/components/ui/sonner.tsx)         *)
(*                                                                         *)
(* The modal rates the drivers of the season at once: loadDrivers awaits   *)
(* getDriverSeasonStats, then reads the stored quick ratings; handleSave   *)
(* hands the list to saveQuickRatings.                                     *)
(***************************************************************************)
\* the buttons of a driver's row: val = (i + 1) * 0.5 for i = 0..19
RatingButtons == {(i + 1) * 50 : i \in 0..19}

\* existingRatings?.find(r => r.driverId === ...)?.rating || 0
existingQuickRating(existingRatings, driverId) ==
    IF existingRatings = None THEN 0
    ELSE LET hits == SelectSeq(existingRatings[1], LAMBDA r : r.driverId = driverId)
         IN IF hits = <<>> THEN 0 ELSE Head(hits).rating

OpenQuickModal(i) ==
    /\ flows[i].pc = "closed"
    /\ flows' = [flows EXCEPT ![i] = [Closed EXCEPT !.pc = "loadingQuick"]]
    /\ UNCHANGED <<storeVars, viewVars, clientVars, listVars, pageVars>>

\* loadDrivers from the answer of getDriverSeasonStats on, which is the empty
\* list when a fetch failed
QuickDriversLoaded(i, ok) ==
    /\ flows[i].pc = "loadingQuick"
    /\ LET stats == IF ok THEN RaceDrivers ELSE <<>>
           existingRatings == getQuickRatings(allQuickRatings, ModalSeason)
           driversWithRatings ==
               [k \in 1..Len(stats) |->
                   [driverId |-> stats[k].driverId,
                    constructorId |-> stats[k].constructorId,
                    rating |-> existingQuickRating(existingRatings, stats[k].driverId)]]
       IN flows' = [flows EXCEPT ![i] =
                      [@ EXCEPT !.pc = "readyQuick", !.drivers = driversWithRatings]]
    /\ UNCHANGED <<storeVars, viewVars, clientVars, listVars, pageVars>>

quickRatingChange(i, driverId, rating) ==
    /\ flows[i].pc = "readyQuick"
    /\ flows' = [flows EXCEPT ![i].drivers =
                    [k \in 1..Len(@) |->
                        IF @[k].driverId = driverId
                        THEN [@[k] EXCEPT !.rating = rating] ELSE @[k]]]
    /\ UNCHANGED <<storeVars, viewVars, clientVars, listVars, pageVars>>

\* the CLEAR ALL button of the footer: every rating of the list goes to 0
quickClearAll(i) ==
    /\ flows[i].pc = "readyQuick"
    /\ flows' = [flows EXCEPT ![i].drivers =
                    [k \in 1..Len(@) |-> [@[k] EXCEPT !.rating = 0]]]
    /\ UNCHANGED <<storeVars, viewVars, clientVars, listVars, pageVars>>

\* handleSave: saveQuickRatings, then onSave and onClose
quickSave(i, w) ==
    /\ flows[i].pc = "readyQuick"
    /\ LET ratings == ratingsOf(flows[i].drivers) IN
       /\ allQuickRatings' = IF w[1]
                             THEN saveQuickRatingsValue(allQuickRatings, ModalSeason,
                                                        ratings)
                             ELSE allQuickRatings
       /\ last' = [op |-> "saveQuickRatings", season |-> ModalSeason,
                   ratings |-> ratings, writes |-> w, pre |-> Pre(ModalSeason)]
       /\ flows' = [flows EXCEPT ![i] = [@ EXCEPT !.pc = "savedQuick",
                                                  !.ratings = ratings,
                                                  !.written = w[1]]]
    /\ UNCHANGED <<allRatings, exported>>
    /\ UNCHANGED <<viewVars, clientVars, listVars, pageVars>>

(***************************************************************************)
(* Race list (src/components/RaceList.tsx) and isRaceCompleted             *)
(*                                                                         *)
(* A race date is the text of a day; new Date(text) is the instant the day *)
(* starts (UTC), or an invalid date, which compares false with anything.   *)
(***************************************************************************)
RaceDates == {"2024-12-31", "2025-01-01", "2025-01-02", "TBC"}

\* new Date(raceDate).getTime(), None for NaN
parseDate(raceDate) ==
    IF raceDate = "2024-12-31" THEN Some(0)
    ELSE IF raceDate = "2025-01-01" THEN Some(pastMs)
    ELSE IF raceDate = "2025-01-02" THEN Some(2 * pastMs)
    ELSE None

\* the slip of counting the instant of the date itself as past
isRaceCompleted_inclusive(raceDate, today) ==
    LET race == parseDate(raceDate) IN race # None /\ race[1] <= today

isRaceCompleted(raceDate, today) ==
    LET race == parseDate(raceDate) IN race # None /\ race[1] < today

NoList == [races |-> <<>>, at |-> 0, completed |-> <<>>]

ListInit == raceList = NoList

\* the list renders: each card asks isRaceCompleted
RenderRaceList ==
    /\ raceList' = [raceList EXCEPT
                       !.at = now,
                       !.completed = [k \in 1..Len(raceList.races) |->
                                         isRaceCompleted(raceList.races[k], now)]]
    /\ UNCHANGED <<storeVars, viewVars, clientVars, modalVars, pageVars>>

(***************************************************************************)
(* Standings page (src/components/StandingsPage.tsx)                       *)
(*                                                                         *)
(* loadData awaits its fetches together and keeps what each fulfilled      *)
(* with; the maps of the tables are computed from the state at each        *)
(* render.  The constructor standings and the calendar only give the rows  *)
(* and columns of the tables and are left out.  A Map is a function on its *)
(* keys; a cell whose position is undefined has no position field.         *)
(***************************************************************************)
Get(map, key, default) == IF key \in DOMAIN map THEN map[key] ELSE default

\* the slip of marking a sprint without a main race as not classified
mergeSprint_null(map, result) ==
    LET key == <<result.driverId, result.round>> IN
    IF key \in DOMAIN map
    THEN With(map, key, [map[key] EXCEPT !.points = @ + result.points])
    ELSE With(map, key, [position |-> None, points |-> result.points])

\* one pass of sprintResults.forEach on wdcRaceMap
mergeSprint(map, result) ==
    LET key == <<result.driverId, result.round>> IN
    IF key \in DOMAIN map
    THEN With(map, key, [map[key] EXCEPT !.points = @ + result.points])
    ELSE With(map, key, [points |-> result.points])

RECURSIVE wdcRaces(_, _)
wdcRaces(map, results) ==
    IF results = <<>> THEN map
    ELSE wdcRaces(With(map, <<Head(results).driverId, Head(results).round>>,
                       [position |-> Head(results).position,
                        points |-> Head(results).points]),
                  Tail(results))

RECURSIVE wdcSprints(_, _)
wdcSprints(map, results) ==
    IF results = <<>> THEN map
    ELSE wdcSprints(mergeSprint(map, Head(results)), Tail(results))

\* driverId, round -> { position, points }
wdcRaceMap(results, sprints) ==
    wdcSprints(wdcRaces([k \in {} |-> <<>>], results), sprints)

RECURSIVE constructorPoles(_)
constructorPoles(stats) ==
    IF stats = <<>> THEN [k \in {} |-> 0]
    ELSE LET map == constructorPoles(SubSeq(stats, 1, Len(stats) - 1))
             driver == stats[Len(stats)]
         IN With(map, driver.constructorId,
                 Get(map, driver.constructorId, 0) + driver.poles)

RECURSIVE constructorPodiums(_)
constructorPodiums(results) ==
    IF results = <<>> THEN [k \in {} |-> 0]
    ELSE LET map == constructorPodiums(SubSeq(results, 1, Len(results) - 1))
             result == results[Len(results)]
         IN IF result.position # None /\ result.position[1] <= 3
            THEN With(map, result.constructorId,
                      Get(map, result.constructorId, 0) + 1)
            ELSE map

Rendered(driverStats, results, sprints) ==
    [driverStats |-> driverStats, raceResults |-> results, sprintResults |-> sprints,
     wdcRaceMap |-> wdcRaceMap(results, sprints),
     constructorPoles |-> constructorPoles(driverStats),
     constructorPodiums |-> constructorPodiums(results)]

PageInit == page = Rendered(<<>>, <<>>, <<>>)

\* getDriverSeasonStats as loadData sees it: its rows, or [] after any failure
\* (C16); the other two reject when rate-limited
StatsOutcomes == {"ok", "failed"}

\* loadData from the Promise.allSettled on, and the render that follows
LoadData(statsOutcome, resultsOutcome, sprintOutcome) ==
    /\ page' = Rendered(
          IF statsOutcome = "ok"
          THEN driverSeasonStats(provider.driverStandings, provider.races,
                                 provider.qualifying)
          ELSE <<>>,
          IF resultsOutcome = "ok" THEN getAllSeasonResults(provider.races)
          ELSE IF resultsOutcome = "failed" THEN <<>>
          ELSE page.raceResults,
          IF sprintOutcome = "ok" THEN getAllSeasonSprints(provider.sprints)
          ELSE IF sprintOutcome = "failed" THEN <<>>
          ELSE page.sprintResults)
    /\ UNCHANGED <<storeVars, viewVars, clientVars, modalVars, listVars>>

(***************************************************************************)
(* Inputs of importRatings: texts a user may pick                          *)
(***************************************************************************)
DocList == <<DriverRating("hill", "red_bull", 800)>>

\* a file need not come from exportRatings: its records may be marked not
\* completed, and its raceRatings may lack the races list
DocRaces(s) ==
    {<<>>, <<RaceRecord("1", DocList, TRUE)>>}
    \cup (IF s = "2024" THEN {<<RaceRecord("1", DocList, FALSE)>>} ELSE {})

DocRaceRatings(s) ==
    {None} \cup {Some([season |-> s, races |-> rs]) : rs \in DocRaces(s)}
    \cup (IF s = "2024" THEN {Some([season |-> s])} ELSE {})

DocQuickRatings(s) ==
    {None, Some(DocList)} \cup (IF s = "2024" THEN {Some(<<>>)} ELSE {})

ImportDocs ==
    UNION {{[season |-> s, raceRatings |-> rr, quickRatings |-> q] :
                rr \in DocRaceRatings(s), q \in DocQuickRatings(s)} :
           s \in Seasons}

ImportTexts ==
    {Garbage, JsonText([notSeason |-> TRUE])} \cup {JsonText(d) : d \in ImportDocs}

(***************************************************************************)
(* Specifications                                                          *)
(***************************************************************************)
Init ==
    /\ StoreInit /\ ViewInit /\ ClientInit /\ ModalInit /\ ListInit /\ PageInit
    /\ provider = NoData

\* the rating store under every operation, each setItem free to throw
Next ==
    \/ \E s \in Seasons, w \in Outcomes(1) :
          \E r \in RoundsOf(s), l \in ListsOf(s) : SaveRaceRatings(s, r, l, w)
    \/ \E s \in Seasons, w \in Outcomes(1) :
          \E l \in QuickListsOf(s) : SaveQuickRatings(s, l, w)
    \/ \E s \in Seasons, w \in Outcomes(2) : ClearSeasonRatings(s, w)
    \/ \E t \in ImportTexts :
          \E w \in Outcomes(importWrites(t)) : ImportRatings(t, w)
    \/ \E s \in Seasons : CalculateAverages(s)

Spec == Init /\ [][Next]_vars

\* the store as the rating modals and the reset button drive it: sequences of
\* saves, quick saves and clears from the empty store
SaveLists ==
    RatingLists \cup
    {<<>>, <<DriverRating("hill", "bull", 600), DriverRating("hill_red", "bull", 800)>>}
SaveListsOf(season) == IF season = "2024" THEN SaveLists ELSE ListsOf(season)

NextSave ==
    \/ \E s \in Seasons, w \in Outcomes(1) :
          \E r \in RoundsOf(s), l \in SaveListsOf(s) : SaveRaceRatings(s, r, l, w)
    \/ \E s \in Seasons, w \in Outcomes(1) :
          \E l \in QuickListsOf(s) : SaveQuickRatings(s, l, w)
    \/ \E s \in Seasons, w \in Outcomes(2) : ClearSeasonRatings(s, w)

SpecSave == Init /\ [][NextSave]_vars

\* the same with the removal of everything
NextClear ==
    \/ \E s \in Seasons, w \in Outcomes(1) :
          \E r \in RoundsOf(s), l \in SaveListsOf(s) : SaveRaceRatings(s, r, l, w)
    \/ \E s \in Seasons, w \in Outcomes(1) :
          \E l \in QuickListsOf(s) : SaveQuickRatings(s, l, w)
    \/ \E s \in Seasons, w \in Outcomes(2) : ClearSeasonRatings(s, w)
    \/ \E w \in Outcomes(1) : ClearAllRatings(w)

SpecClear == Init /\ [][NextClear]_vars

\* the matrix of a season rated in any order of its rounds 2, 9 and 10
MatrixRounds == {"2", "9", "10"}

MatrixLists ==
    {<<DriverRating("hill", "red_bull", 800)>>,
     <<DriverRating("hill", "red_bull", 600), DriverRating("senna", "mclaren", 950)>>,
     <<DriverRating("senna", "mclaren", 700)>>}

\* a season of twenty rounds rated in their order, one driver at 1.0 in every
\* round but the last, at 1.5 in the last: the mean is 1.025
RoundNames ==
    <<"1", "2", "3", "4", "5", "6", "7", "8", "9", "10",
      "11", "12", "13", "14", "15", "16", "17", "18", "19", "20">>

LongSeason ==
    [season |-> "2024",
     races |-> [k \in 1..Len(RoundNames) |->
                   RaceRecord(RoundNames[k],
                              <<DriverRating("hill", "red_bull",
                                             IF k = Len(RoundNames) THEN 150 ELSE 100)>>,
                              TRUE)]]

\* the store empty, or holding the season of twenty rounds
InitMatrix ==
    /\ allRatings \in {Empty, With(Empty, "2024", LongSeason)}
    /\ allQuickRatings = Empty
    /\ last = [op |-> "init"]
    /\ exported = None
    /\ ViewInit /\ ClientInit /\ ModalInit /\ ListInit /\ PageInit
    /\ provider = NoData

NextMatrix ==
    \/ \E r \in MatrixRounds, l \in MatrixLists :
          SaveRaceRatings("2024", r, l, <<TRUE>>)
    \/ GetRaceByRaceMatrix("2024")

SpecMatrix == InitMatrix /\ [][NextMatrix]_vars

\* export followed by import: the store is first brought to any state; once a
\* file has been exported, it is imported back, directly or after the reset
\* of its season (a new export replaces the file)
NextRoundTrip ==
    \/ /\ exported = None
       /\ \/ \E s \in Seasons : \E r \in RoundsOf(s), l \in ListsOf(s) :
                SaveRaceRatings(s, r, l, <<TRUE>>)
          \/ \E s \in Seasons : \E l \in QuickListsOf(s) :
                SaveQuickRatings(s, l, <<TRUE>>)
          \/ \E t \in ImportTexts :
                \E w \in Outcomes(importWrites(t)) : AllWritten(w) /\ ImportRatings(t, w)
    \/ \E s \in Seasons : ExportRatings(s)
    \/ \E w \in Outcomes(2) :
          ClearSeasonRatings(IF exported = None THEN "2024" ELSE exported[1].season, w)
    \/ /\ exported # None
       /\ \E w \in Outcomes(importWrites(exported[1].text)) :
             ImportRatings(exported[1].text, w)

SpecRoundTrip == Init /\ [][NextRoundTrip]_vars

\* TeammateWars over a season of MaxRaces races of two McLaren drivers, one
\* of whom may also appear for Williams
MaxRaces == 2

\* a classified result carries its rank in both fields; an unclassified one
\* carries a letter in positionText and a rank in position
Classified(d, c) ==
    {<<RawResult(d, c, ToString(p), ToString(p))>> : p \in 1..MaxPosition}

NorrisResults ==
    {<<>>,
     <<RawResult("norris", "mclaren", "R", ToString(MaxPosition))>>,
     <<RawResult("norris", "williams", "1", "1")>>}
    \cup Classified("norris", "mclaren")

PiastriResults ==
    {<<>>,
     <<RawResult("piastri", "mclaren", "D", ToString(MaxPosition))>>}
    \cup Classified("piastri", "mclaren")

ProviderRaces ==
    {[i \in 1..MaxRaces |-> [round |-> ToString(i), Results |-> f[i][1] \o f[i][2]]] :
        f \in [1..MaxRaces -> NorrisResults \X PiastriResults]}

ProviderQualifying ==
    {<<>>,
     [i \in 1..MaxRaces |->
        [round |-> ToString(i),
         QualifyingResults |-> <<RawQualifying("norris", "mclaren", "2"),
                                 RawQualifying("piastri", "mclaren", "1")>>]]}

InitH2H ==
    /\ StoreInit
    /\ ViewInit
    /\ ClientInit
    /\ ModalInit
    /\ ListInit
    /\ PageInit
    /\ provider \in [races : ProviderRaces, qualifying : ProviderQualifying]

NextH2H ==
    \/ \E raceOutcome, qualiOutcome \in FetchOutcomes :
          FetchData(1, raceOutcome, qualiOutcome)
    \/ \E pair \in {<<"norris", "piastri">>, <<"piastri", "norris">>} :
          RenderH2H(pair[1], pair[2], "mclaren")

SpecH2H == InitH2H /\ [][NextH2H]_vars

\* TeammateWars over seasons whose qualifying sessions differ from the races:
\* a driver may miss a session, or qualify for another team
QualiNorrisResults ==
    {<<>>,
     <<RawResult("norris", "mclaren", "1", "1")>>,
     <<RawResult("norris", "mclaren", "R", ToString(MaxPosition))>>}

QualiPiastriResults ==
    {<<>>, <<RawResult("piastri", "mclaren", "2", "2")>>}

QualiRaces ==
    {[i \in 1..MaxRaces |-> [round |-> ToString(i), Results |-> f[i][1] \o f[i][2]]] :
        f \in [1..MaxRaces -> QualiNorrisResults \X QualiPiastriResults]}

NorrisQualifying ==
    {<<RawQualifying("norris", "mclaren", "1")>>,
     <<RawQualifying("norris", "mclaren", ToString(MaxPosition))>>,
     <<RawQualifying("norris", "williams", "1")>>}

PiastriQualifying ==
    {<<>>, <<RawQualifying("piastri", "mclaren", "2")>>}

QualiSessions ==
    {[i \in 1..MaxRaces |->
        [round |-> ToString(i), QualifyingResults |-> f[i][1] \o f[i][2]]] :
        f \in [1..MaxRaces -> NorrisQualifying \X PiastriQualifying]}

InitQuali ==
    /\ StoreInit
    /\ ViewInit
    /\ ClientInit
    /\ ModalInit
    /\ ListInit
    /\ PageInit
    /\ provider \in [races : QualiRaces, qualifying : QualiSessions]

SpecQuali == InitQuali /\ [][NextH2H]_vars

\* TeammateWars over seasons in which the two drivers may be given the same
\* position, in the race or in the qualifying
TieNorrisResults ==
    {<<>>,
     <<RawResult("norris", "mclaren", "1", "1")>>,
     <<RawResult("norris", "mclaren", "R", "1")>>}

TiePiastriResults ==
    {<<RawResult("piastri", "mclaren", "1", "1")>>,
     <<RawResult("piastri", "mclaren", "2", "2")>>}

TieRaces ==
    {[i \in 1..MaxRaces |-> [round |-> ToString(i), Results |-> f[i][1] \o f[i][2]]] :
        f \in [1..MaxRaces -> TieNorrisResults \X TiePiastriResults]}

TieNorrisQualifying == {<<>>, <<RawQualifying("norris", "mclaren", "1")>>}

TiePiastriQualifying ==
    {<<RawQualifying("piastri", "mclaren", "1")>>,
     <<RawQualifying("piastri", "mclaren", "2")>>}

TieSessions ==
    {[i \in 1..MaxRaces |->
        [round |-> ToString(i), QualifyingResults |-> f[i][1] \o f[i][2]]] :
        f \in [1..MaxRaces -> TieNorrisQualifying \X TiePiastriQualifying]}

InitTies ==
    /\ StoreInit
    /\ ViewInit
    /\ ClientInit
    /\ ModalInit
    /\ ListInit
    /\ PageInit
    /\ provider \in [races : TieRaces, qualifying : TieSessions]

SpecTies == InitTies /\ [][NextH2H]_vars

\* StandingsPage over seasons with a driver who changes team, a sprint in
\* the first round, with or without a main race, the same qualifying order
\* in every round, and standings that may leave a driver out
Scored(d, c, positionText, position, points) ==
    [driverId |-> d, constructorId |-> c, positionText |-> positionText,
     position |-> position, points |-> points]

Standing(d, constructors, position) ==
    [driverId |-> d, Constructors |-> constructors,
     position |-> position, points |-> "0", wins |-> "0"]

\* a place off the podium
Far == ToString(MaxPosition + 1)

StandingsRaceResults ==
    {<<>>,
     <<Scored("sainz", "ferrari", "1", "1", "25"),
       Scored("norris", "mclaren", "2", "2", "18")>>,
     <<Scored("piastri", "mclaren", "1", "1", "25"),
       Scored("sainz", "williams", "3", "3", "15"),
       Scored("norris", "mclaren", Far, Far, "12")>>,
     <<Scored("norris", "mclaren", "R", Far, "0")>>}

StandingsQualifyingResults ==
    {<<>>,
     <<RawQualifying("sainz", "ferrari", "1"), RawQualifying("norris", "mclaren", "2")>>,
     <<RawQualifying("norris", "mclaren", "1"), RawQualifying("piastri", "mclaren", "2")>>}

StandingsSprintResults ==
    {<<>>,
     <<Scored("norris", "mclaren", "1", "1", "8"),
       Scored("piastri", "mclaren", "R", Far, "0")>>}

StandingsLists ==
    {<<Standing("norris", <<"mclaren">>, "1"),
       Standing("sainz", <<"ferrari", "williams">>, "2"),
       Standing("piastri", <<"mclaren">>, "3")>>,
     <<Standing("sainz", <<"williams", "ferrari">>, "1"),
       Standing("norris", <<"mclaren">>, "2")>>}

InitStandings ==
    /\ StoreInit
    /\ ViewInit
    /\ ClientInit
    /\ ModalInit
    /\ ListInit
    /\ PageInit
    /\ \E results \in [1..MaxRaces -> StandingsRaceResults],
          qualifying \in StandingsQualifyingResults,
          sprint \in StandingsSprintResults,
          standings \in StandingsLists :
          provider =
             [races |-> [k \in 1..MaxRaces |->
                            [round |-> ToString(k), Results |-> results[k]]],
              qualifying |-> [k \in 1..MaxRaces |->
                                 [round |-> ToString(k),
                                  QualifyingResults |-> qualifying]],
              sprints |-> <<[round |-> "1", SprintResults |-> sprint]>>,
              driverStandings |-> standings]

NextStandings ==
    \E statsOutcome \in StatsOutcomes, resultsOutcome, sprintOutcome \in FetchOutcomes :
       LoadData(statsOutcome, resultsOutcome, sprintOutcome)

SpecStandings == InitStandings /\ [][NextStandings]_vars

\* one call of a season function, from the empty cache: the functions of one
\* fetch against collections of every size, getDriverSeasonStats (a request
\* and two fetches) against the two smallest
Totals == {t \in 0..(MaxPages * limit) : t % (limit \div 2) \in {0, 1}}
StatsTotals == {1, limit + 1}
Answers == {"ok", "429", "error"}

NextPaginate ==
    \/ /\ call.pc = "idle"
       /\ \/ \E fn \in SeasonFns \ {"getDriverSeasonStats"}, total \in Totals :
                Call(fn, "2024", total)
          \/ \E total \in StatsTotals : Call("getDriverSeasonStats", "2024", total)
    \/ \E answer \in Answers, written \in BOOLEAN : Respond(answer, written)

SpecPaginate == Init /\ [][NextPaginate]_vars

\* calls of the cached fetches one after the other, the clock running before,
\* during and between them: the current season and a past one
CachedFns == {"getAllSeasonResults", "getConstructorStandings"}

NextCache ==
    \/ \E fn \in CachedFns, season \in Seasons : Call(fn, season, 1)
    \/ \E answer \in Answers, written \in BOOLEAN : Respond(answer, written)
    \/ \E ms \in {currentMs, pastMs} : Tick(ms)

SpecCache == Init /\ [][NextCache]_vars

\* fetches of a collection of one page or of two, one after the other, the
\* clock running before, during and between them: the season is the current
\* one until the year of the clock changes, and a past one from then on
RefreshTotals == {1, limit + 1}

NextRefresh ==
    \/ \E total \in RefreshTotals : Call("getAllSeasonResults", "2024", total)
    \/ \E answer \in Answers, written \in BOOLEAN : Respond(answer, written)
    \/ \E ms \in {currentMs, pastMs} : Tick(ms)

SpecRefresh == Init /\ [][NextRefresh]_vars

\* cached fetches of a past, the current and a future season and of the
\* season named "current", the clock running before, during and between them
TtlSeasons == {"2023", "2024", "2025", "current"}

NextTtl ==
    \/ \E fn \in CachedFns, season \in TtlSeasons : Call(fn, season, 1)
    \/ \E answer \in Answers, written \in BOOLEAN : Respond(answer, written)
    \/ \E ms \in {currentMs, pastMs} : Tick(ms)

SpecTtl == Init /\ [][NextTtl]_vars

\* two rating modals of the season, each loading and saving in its own time
NextFlows ==
    \/ \E i \in 1..MaxFlows, round \in RoundsOf(ModalSeason) : OpenModal(i, round)
    \/ \E i \in 1..MaxFlows, ok \in BOOLEAN : DriversLoaded(i, ok)
    \/ \E i \in 1..MaxFlows, rating \in {600, 800} :
          handleRatingChange(i, "hill", rating)
    \/ \E i \in 1..MaxFlows, w \in Outcomes(1) : handleSave(i, w)

SpecFlows == Init /\ [][NextFlows]_vars

\* the store under the two modals, the import of a file and the clears; a
\* file is any JSON text, so the ratings in it are any numbers
FileRatings == {0, 725, 1100}

GridDocs ==
    {[season |-> ModalSeason,
      raceRatings |-> Some([season |-> ModalSeason,
                            races |-> <<RaceRecord("1", <<DriverRating("hill", "red_bull", r)>>,
                                                   TRUE)>>]),
      quickRatings |-> None] : r \in FileRatings}
    \cup
    {[season |-> ModalSeason,
      raceRatings |-> None,
      quickRatings |-> Some(<<DriverRating("hill", "red_bull", r)>>)] : r \in FileRatings}

GridClicks == {50, 1000}

\* the rating modal is flow 1, the quick-rate modal flow 2
NextGrid ==
    \/ OpenModal(1, "1")
    \/ \E ok \in BOOLEAN : DriversLoaded(1, ok)
    \/ \E rating \in GridClicks : handleRatingChange(1, "hill", rating)
    \/ \E w \in Outcomes(1) : handleSave(1, w)
    \/ OpenQuickModal(2)
    \/ \E ok \in BOOLEAN : QuickDriversLoaded(2, ok)
    \/ \E rating \in GridClicks : quickRatingChange(2, "hill", rating)
    \/ quickClearAll(2)
    \/ \E w \in Outcomes(1) : quickSave(2, w)
    \/ \E d \in GridDocs :
          \E w \in Outcomes(importWrites(JsonText(d))) : ImportRatings(JsonText(d), w)
    \/ \E w \in Outcomes(2) : ClearSeasonRatings(ModalSeason, w)
    \/ \E w \in Outcomes(1) : ClearAllRatings(w)

SpecGrid == Init /\ [][NextGrid]_vars

\* the race list of a calendar rendered as the clock runs
Calendars == [1..MaxCalendar -> RaceDates]

InitClock ==
    /\ StoreInit
    /\ ViewInit
    /\ ClientInit
    /\ ModalInit
    /\ PageInit
    /\ provider = NoData
    /\ \E races \in Calendars :
          raceList = [races |-> races, at |-> 0,
                      completed |-> [k \in 1..MaxCalendar |->
                                        isRaceCompleted(races[k], 0)]]

NextClock ==
    \/ \E ms \in {currentMs, pastMs} : Tick(ms)
    \/ RenderRaceList

SpecClock == InitClock /\ [][NextClock]_vars

\* a mounted TeammateWars whose season prop changes while fetches are pending
StaleData ==
    [races |-> <<[round |-> "1",
                  Results |-> <<RawResult("norris", "mclaren", "1", "1"),
                                RawResult("piastri", "mclaren", "2", "2")>>]>>,
     qualifying |-> <<[round |-> "1",
                       QualifyingResults |->
                           <<RawQualifying("norris", "mclaren", "2"),
                             RawQualifying("piastri", "mclaren", "1")>>]>>]

InitStale ==
    /\ StoreInit
    /\ ViewInit
    /\ ClientInit
    /\ ModalInit
    /\ ListInit
    /\ PageInit
    /\ provider = StaleData

NextStale ==
    \/ \E s \in Seasons : SeasonChanged(s)
    \/ \E f \in inflight : \E raceOutcome, qualiOutcome \in FetchOutcomes :
          FetchData(f, raceOutcome, qualiOutcome)
    \/ RenderH2H("norris", "piastri", "mclaren")

SpecStale == InitStale /\ [][NextStale]_vars

(***************************************************************************)
(* Reference notions used by the properties (not taken from the code)      *)
(***************************************************************************)
RacesOf(seasonRatings) ==
    IF seasonRatings = None THEN <<>> ELSE seasonRatings[1].races

QuickOf(quickRatings) ==
    IF quickRatings = None THEN <<>> ELSE quickRatings[1]

\* the ratings held by the completed races of a list, each with its round
RECURSIVE CompletedEntries(_)
CompletedEntries(races) ==
    IF races = <<>> THEN <<>>
    ELSE (IF Head(races).completed
          THEN [i \in 1..Len(Head(races).ratings) |->
                    [round |-> Head(races).round, entry |-> Head(races).ratings[i]]]
          ELSE <<>>)
         \o CompletedEntries(Tail(races))

IsPair(e, d, c) == e.entry.driverId = d /\ e.entry.constructorId = c

EntriesOfPair(races, d, c) ==
    SelectSeq(CompletedEntries(races), LAMBDA e : IsPair(e, d, c))

RatingsOfPair(races, d, c) ==
    LET es == EntriesOfPair(races, d, c) IN [i \in 1..Len(es) |-> es[i].entry.rating]

PairsOf(races) ==
    LET es == CompletedEntries(races) IN
    {<<es[i].entry.driverId, es[i].entry.constructorId>> : i \in 1..Len(es)}

DistinctRounds(es) ==
    \A i, j \in 1..Len(es) : i # j => es[i].round # es[j].round

\* the mean of a non-empty list to two decimals, in hundredths: the nearest
\* integer to sum / n, the upper one on a tie
RoundedMean(rs) ==
    CHOOSE m \in 0..2000 :
        /\ 2 * (m * Len(rs) - SumSeq(rs)) <= Len(rs)
        /\ 2 * (m * Len(rs) - SumSeq(rs)) > -Len(rs)

Count(seq, P(_)) == Len(SelectSeq(seq, P))

Averaged == last.op = "calculateAverages"

StoredRaces(season) == RacesOf(getSeasonRatings(allRatings, season))
StoredQuick(season) == QuickOf(getQuickRatings(allQuickRatings, season))

(***************************************************************************)
(* C1: when the completed races of a season hold, in n >= 1 distinct       *)
(* rounds, the ratings r1..rn of one (driverId, constructorId) pair,       *)
(* calculateAverages returns a row for that pair with totalRaces = n,      *)
(* ratings = [r1..rn] and averageRating = the mean rounded to 2 decimals.  *)
(***************************************************************************)
C1_AveragePerPair ==
    Averaged =>
        \A p \in PairsOf(StoredRaces(last.season)) :
            LET es == EntriesOfPair(StoredRaces(last.season), p[1], p[2])
                rs == RatingsOfPair(StoredRaces(last.season), p[1], p[2])
            IN DistinctRounds(es) =>
                 \E i \in 1..Len(last.result) :
                    /\ last.result[i].driverId = p[1]
                    /\ last.result[i].constructorId = p[2]
                    /\ last.result[i].totalRaces = Len(rs)
                    /\ last.result[i].ratings = rs
                    /\ last.result[i].averageRating = RoundedMean(rs)

(***************************************************************************)
(* C2: calculateAverages never merges across constructors: two different   *)
(* (driverId, constructorId) pairs end up in two different rows, and the   *)
(* ratings of a row are exactly the ratings saved under the row's pair.    *)
(***************************************************************************)
C2_NoMergeAcrossPairs ==
    Averaged /\ StoredRaces(last.season) # <<>> =>
        /\ Len(last.result) = Cardinality(PairsOf(StoredRaces(last.season)))
        /\ \A i \in 1..Len(last.result) :
              last.result[i].ratings =
                  RatingsOfPair(StoredRaces(last.season),
                                last.result[i].driverId,
                                last.result[i].constructorId)

(***************************************************************************)
(* C3: calculateAverages takes its source in this order: the completed     *)
(* race ratings when there is any (nothing else contributes); else the     *)
(* quick ratings, one row per entry with totalRaces = 1 and the entry's    *)
(* rating as average; else the empty list.                                 *)
(***************************************************************************)
RowIsQuick(row, e) ==
    /\ row.driverId = e.driverId
    /\ row.constructorId = e.constructorId
    /\ row.averageRating = e.rating
    /\ row.totalRaces = 1
    /\ row.ratings = <<e.rating>>

C3_SourceOrder ==
    Averaged =>
        LET es == CompletedEntries(StoredRaces(last.season))
            quick == StoredQuick(last.season)
            rows == last.result
        IN IF \E i \in 1..Len(StoredRaces(last.season)) :
                  StoredRaces(last.season)[i].completed
           THEN /\ SumSeq([i \in 1..Len(rows) |-> rows[i].totalRaces]) = Len(es)
                /\ SumSeq([i \in 1..Len(rows) |-> Len(rows[i].ratings)]) = Len(es)
                /\ \A i \in 1..Len(rows) : \A k \in 1..Len(rows[i].ratings) :
                      \E j \in 1..Len(es) : es[j].entry.rating = rows[i].ratings[k]
           ELSE IF quick # <<>>
                THEN /\ Len(rows) = Len(quick)
                     /\ \A j \in 1..Len(quick) :
                           Count(rows, LAMBDA row : RowIsQuick(row, quick[j]))
                           = Count(quick, LAMBDA e : e = quick[j])
                ELSE rows = <<>>

(***************************************************************************)
(* C4: saveRaceRatings upserts by (season, round): after a save the store  *)
(* holds exactly one record of that round, carrying exactly the ratings    *)
(* just passed and completed = true; the records of the other rounds and   *)
(* of the other seasons are as before.                                     *)
(***************************************************************************)
OfRound(races, round) == SelectSeq(races, LAMBDA x : x.round = round)
NotOfRound(races, round) == SelectSeq(races, LAMBDA x : x.round # round)

Saved == last.op = "saveRaceRatings" /\ AllWritten(last.writes)

C4_SaveUpserts ==
    [][Saved' =>
        /\ OfRound(RacesOf(getSeasonRatings(allRatings', last'.season)), last'.round)
              = <<RaceRecord(last'.round, last'.ratings, TRUE)>>
        /\ NotOfRound(RacesOf(getSeasonRatings(allRatings', last'.season)), last'.round)
              = NotOfRound(StoredRaces(last'.season), last'.round)
        /\ \A t \in Seasons \ {last'.season} :
              getSeasonRatings(allRatings', t) = getSeasonRatings(allRatings, t)
      ]_vars

\* a save that overwrote other ratings of its round, next to another round
\* and to the other season
C4_Witness ==
    /\ Saved
    /\ OfRound(RacesOf(last.pre.races), last.round) # <<>>
    /\ OfRound(RacesOf(last.pre.races), last.round)[1].ratings # last.ratings
    /\ Len(last.pre.races[1].races) >= 2
    /\ \E t \in Seasons \ {last.season} : StoredRaces(t) # <<>>

(***************************************************************************)
(* C5: importing the text made by exportRatings(S), into a store where S   *)
(* is as it was or has been cleared, brings S back to what it held when    *)
(* the text was made: the same race records and the same quick ratings.    *)
(***************************************************************************)
Cleared == [races |-> None, quick |-> None]

SameRatings(a, b) ==
    /\ RacesOf(a.races) = RacesOf(b.races)
    /\ (a.races = None) = (b.races = None)
    /\ QuickOf(a.quick) = QuickOf(b.quick)

ImportedBack ==
    /\ exported # None
    /\ last.op = "importRatings"
    /\ last.text = exported[1].text
    /\ AllWritten(last.writes)
    /\ last.pre \in {Some(exported[1].at), Some(Cleared)}

C5_RoundTrip ==
    ImportedBack =>
        SameRatings(SeasonState(allRatings, allQuickRatings, exported[1].season),
                    exported[1].at)

\* a season with race records and quick ratings, exported, cleared, imported
C5_Witness ==
    /\ ImportedBack
    /\ last.pre = Some(Cleared)
    /\ RacesOf(exported[1].at.races) # <<>>
    /\ QuickOf(exported[1].at.quick) # <<>>

(***************************************************************************)
(* C6: importRatings of a text that is not JSON, or of a document without  *)
(* a season field, returns success = false and changes neither the race    *)
(* ratings nor the quick ratings of any season.                            *)
(***************************************************************************)
Malformed(text) == ~text.valid \/ "season" \notin DOMAIN text.data

C6_MalformedImport ==
    [][(last'.op = "importRatings" /\ Malformed(last'.text)) =>
        /\ ~last'.result.success
        /\ allRatings' = allRatings
        /\ allQuickRatings' = allQuickRatings
      ]_vars

\* the document {"notSeason": true} met a store holding both kinds of ratings
C6_Witness ==
    /\ last.op = "importRatings"
    /\ last.text = JsonText([notSeason |-> TRUE])
    /\ \E s \in Seasons : StoredRaces(s) # <<>> /\ StoredQuick(s) # <<>>

(***************************************************************************)
(* C7: a successful importRatings of a document for season S replaces the  *)
(* race ratings of S: afterwards they are exactly those of the document    *)
(* (none when it carries none), and the other seasons are as before.       *)
(***************************************************************************)
DocumentRaces(data) ==
    IF importsRaces(data) THEN data.raceRatings[1].races ELSE <<>>

C7_ImportReplaces ==
    [][(last'.op = "importRatings" /\ last'.result.success) =>
        /\ RacesOf(getSeasonRatings(allRatings', last'.result.season))
              = DocumentRaces(last'.text.data)
        /\ \A t \in Seasons \ {last'.result.season} :
              getSeasonRatings(allRatings', t) = getSeasonRatings(allRatings, t)
      ]_vars

(***************************************************************************)
(* C8: clearSeasonRatings(S) removes S from the race-ratings store and     *)
(* from the quick-ratings store and leaves every other season as it was.   *)
(***************************************************************************)
C8_ClearOnlySeason ==
    [][(last'.op = "clearSeasonRatings" /\ AllWritten(last'.writes)) =>
        /\ last'.season \notin DOMAIN allRatings'
        /\ last'.season \notin DOMAIN allQuickRatings'
        /\ \A t \in (DOMAIN allRatings \cup DOMAIN allQuickRatings) \ {last'.season} :
              SeasonState(allRatings', allQuickRatings', t)
                  = SeasonState(allRatings, allQuickRatings, t)
      ]_vars

\* a season holding both kinds of ratings was cleared while the other season
\* holds both kinds too
C8_Witness ==
    /\ last.op = "clearSeasonRatings"
    /\ AllWritten(last.writes)
    /\ last.pre.races # None /\ last.pre.quick # None
    /\ \E t \in Seasons \ {last.season} : StoredRaces(t) # <<>> /\ StoredQuick(t) # <<>>

(***************************************************************************)
(* C9: a persistence operation one of whose writes fails is a no-op: the   *)
(* race ratings and the quick ratings are after the call what they were    *)
(* before it.                                                              *)
(***************************************************************************)
Persisting ==
    {"saveRaceRatings", "saveQuickRatings", "clearSeasonRatings", "importRatings"}

C9_FailedWriteIsNoOp ==
    [][(last'.op \in Persisting /\ ~AllWritten(last'.writes)) =>
        /\ allRatings' = allRatings
        /\ allQuickRatings' = allQuickRatings
      ]_vars

(***************************************************************************)
(* C10: in the race comparison of A and B under a constructor, a round in  *)
(* which either of them was not classified counts in totalRaces for        *)
(* nothing and gives neither of them a win; a round both finished with A   *)
(* ahead of B gives a win to A only.  So the three race counters are the   *)
(* numbers of rounds that both finished, that A finished ahead, and that   *)
(* B finished ahead.                                                       *)
(***************************************************************************)
\* what the provider says of driver d in a round, under constructor c
ProviderRacesOf(round) ==
    {provider.races[k] :
        k \in {j \in 1..Len(provider.races) : provider.races[j].round = round}}

ProviderEntries(round, d, c) ==
    {e \in UNION {{race.Results[i] : i \in 1..Len(race.Results)} :
                    race \in ProviderRacesOf(round)} :
        e.driverId = d /\ e.constructorId = c}

Finished(round, d, c) ==
    \E e \in ProviderEntries(round, d, c) : e.positionText \notin NotClassified

Unclassified(round, d, c) ==
    \E e \in ProviderEntries(round, d, c) : e.positionText \in NotClassified

Rank(round, d, c) ==
    parseInt((CHOOSE e \in ProviderEntries(round, d, c) : TRUE).position)

ProviderRounds == {provider.races[k].round : k \in 1..Len(provider.races)}

BothFinished(a, b, c) ==
    {r \in ProviderRounds : Finished(r, a, c) /\ Finished(r, b, c)}

Compared == h2h # None /\ raceResults # <<>>

C10_RaceH2H ==
    Compared =>
        LET a == h2h[1].driverAId
            b == h2h[1].driverBId
            c == h2h[1].constructorId
        IN /\ h2h[1].stats.totalRaces = Cardinality(BothFinished(a, b, c))
           /\ h2h[1].stats.raceWinsA =
                 Cardinality({r \in BothFinished(a, b, c) : Rank(r, a, c) < Rank(r, b, c)})
           /\ h2h[1].stats.raceWinsB =
                 Cardinality({r \in BothFinished(a, b, c) : Rank(r, b, c) < Rank(r, a, c)})

\* one round lost to a retirement of B, one round both finished with A ahead
C10_Witness ==
    /\ Compared
    /\ \E r \in ProviderRounds :
          /\ Finished(r, h2h[1].driverAId, h2h[1].constructorId)
          /\ Unclassified(r, h2h[1].driverBId, h2h[1].constructorId)
    /\ \E r \in BothFinished(h2h[1].driverAId, h2h[1].driverBId, h2h[1].constructorId) :
          Rank(r, h2h[1].driverAId, h2h[1].constructorId)
             < Rank(r, h2h[1].driverBId, h2h[1].constructorId)
    /\ h2h[1].stats.totalRaces = 1
    /\ h2h[1].stats.raceWinsA = 1
    /\ h2h[1].stats.raceWinsB = 0

(***************************************************************************)
(* C11.  In the qualifying head-to-head, every round of the round set (the *)
(* rounds in which either driver has a race result under the constructor)  *)
(* in which both drivers have a qualifying entry under the constructor is  *)
(* counted in totalQualis and credited to the driver with the lower        *)
(* qualifying position, whatever happened to either in the race; entries   *)
(* under another constructor count for nothing.                            *)
(***************************************************************************)
ProviderSessionsOf(round) ==
    {provider.qualifying[k] :
        k \in {j \in 1..Len(provider.qualifying) : provider.qualifying[j].round = round}}

QualifyingEntries(round, d, c) ==
    {e \in UNION {{q.QualifyingResults[i] : i \in 1..Len(q.QualifyingResults)} :
                    q \in ProviderSessionsOf(round)} :
        e.driverId = d /\ e.constructorId = c}

Qualified(round, d, c) == QualifyingEntries(round, d, c) # {}

Grid(round, d, c) ==
    parseInt((CHOOSE e \in QualifyingEntries(round, d, c) : TRUE).position)

RoundSet(a, b, c) ==
    {r \in ProviderRounds : ProviderEntries(r, a, c) \cup ProviderEntries(r, b, c) # {}}

BothQualified(a, b, c) ==
    {r \in RoundSet(a, b, c) : Qualified(r, a, c) /\ Qualified(r, b, c)}

QualiCompared ==
    /\ Compared
    /\ qualiResults # <<>>

C11_QualiH2H ==
    QualiCompared =>
        LET a == h2h[1].driverAId
            b == h2h[1].driverBId
            c == h2h[1].constructorId
        IN /\ h2h[1].stats.totalQualis = Cardinality(BothQualified(a, b, c))
           /\ h2h[1].stats.qualiWinsA =
                 Cardinality({r \in BothQualified(a, b, c) : Grid(r, a, c) < Grid(r, b, c)})
           /\ h2h[1].stats.qualiWinsB =
                 Cardinality({r \in BothQualified(a, b, c) : Grid(r, b, c) < Grid(r, a, c)})

\* one round counted although A retired from its race and won by A, one round
\* not counted because A qualified for another team
C11_Witness ==
    /\ QualiCompared
    /\ LET a == h2h[1].driverAId
           b == h2h[1].driverBId
           c == h2h[1].constructorId
       IN /\ \E r \in BothQualified(a, b, c) :
                /\ Unclassified(r, a, c)
                /\ Grid(r, a, c) < Grid(r, b, c)
          /\ \E r \in RoundSet(a, b, c) :
                /\ Qualified(r, b, c)
                /\ ~Qualified(r, a, c)
                /\ \E q \in ProviderSessionsOf(r) :
                      \E i \in 1..Len(q.QualifyingResults) :
                         q.QualifyingResults[i].driverId = a
          /\ h2h[1].stats.totalQualis = 1
          /\ h2h[1].stats.qualiWinsA = 1
          /\ h2h[1].stats.qualiWinsB = 0

(***************************************************************************)
(* C12.  Against a provider that holds T records and answers every request *)
(* with a full page, fetchAllPaginated asks for the offsets 0, limit,      *)
(* 2 * limit, ... one after the other, max(1, ceil(T / limit)) requests in *)
(* all (2 for T = 150), and ends with the pages concatenated in request    *)
(* order.                                                                  *)
(***************************************************************************)
Pages(total) == IF total = 0 THEN 1 ELSE (total + limit - 1) \div limit

Collection(path, total) == [i \in 1..total |-> ProviderRecord(path, i)]

ErrorFree == \A k \in 1..Len(call.log) : call.log[k].answer = "ok"

C12_Pagination ==
    (call.fn \in PaginatedFns /\ ErrorFree) =>
        /\ \A k \in 1..Len(call.log) :
              call.log[k].url = [endpoint |-> endpointOf(call.season, call.path),
                                 offset |-> (k - 1) * limit]
        /\ Len(call.log) <= Pages(call.total)
        /\ call.pc = "done" <=> Len(call.log) = Pages(call.total)
        /\ call.pc = "done" =>
              call.fetched = <<Returned(Collection(call.path, call.total))>>

\* 150 records fetched in two requests
C12_Witness ==
    /\ call.fn \in PaginatedFns
    /\ ErrorFree
    /\ call.pc = "done"
    /\ call.total = limit + limit \div 2
    /\ Len(call.log) = 2
    /\ Len(call.fetched[1].value) = call.total

(***************************************************************************)
(* C13.  A request is made at most 1 + maxRetries times; it is repeated    *)
(* only after a 429 answer; after any other failure no request of the      *)
(* same url follows; the offsets asked of an endpoint never go back.  The  *)
(* requests of a call are therefore bounded by three per page (and three   *)
(* for the constructor standings).                                         *)
(***************************************************************************)
Attempts(url) == Cardinality({k \in 1..Len(call.log) : call.log[k].url = url})

RequestsBound ==
    IF call.fn \in PaginatedFns THEN (1 + maxRetries) * Pages(call.total)
    ELSE IF call.fn = "getConstructorStandings" THEN 1 + maxRetries
    ELSE 1 + 2 * (1 + maxRetries) * Pages(call.total)

C13_BoundedRetries ==
    /\ \A k \in 1..Len(call.log) : Attempts(call.log[k].url) <= 1 + maxRetries
    /\ \A k \in 1..(Len(call.log) - 1) :
          /\ call.log[k + 1].url = call.log[k].url => call.log[k].answer = "429"
          /\ call.log[k + 1].url.endpoint = call.log[k].url.endpoint =>
                call.log[k + 1].url.offset >= call.log[k].url.offset
    /\ \A k \in 1..Len(call.log) :
          \A j \in 1..Len(call.log) :
             (j < k /\ call.log[j].url.endpoint = call.log[k].url.endpoint) =>
                call.log[j].url.offset <= call.log[k].url.offset
    /\ Len(call.log) <= RequestsBound

\* the second page answered at the third attempt, the first page asked once
C13_Witness ==
    /\ call.fn \in PaginatedFns
    /\ call.pc = "done"
    /\ Len(call.log) = 4
    /\ call.log[1].answer = "ok"
    /\ call.log[2].answer = "429"
    /\ call.log[3].answer = "429"
    /\ call.log[4].answer = "ok"
    /\ call.log[4].url.offset = limit
    /\ call.fetched[1].kind = "returned"

(***************************************************************************)
(* C14.  When the last attempt of a request of fetchAllPaginated or of     *)
(* getConstructorStandings is answered 429, the fetch returns the cached   *)
(* value of its key if the cache has an entry for it, expired or not, and  *)
(* throws the rate-limit error only if the cache has none.                 *)
(***************************************************************************)
keyAwaited ==
    IF call.pc = "page" THEN paginatedKey(call.season, call.path)
    ELSE standingsKey(call.season)

Exhausted ==
    /\ call.pc \in {"page", "standings"}
    /\ call.attempt = maxRetries
    /\ Len(call'.log) = Len(call.log) + 1
    /\ call'.log[Len(call'.log)].answer = "429"

C14_StaleOnRateLimit ==
    [][Exhausted =>
         /\ Len(call'.fetched) = Len(call.fetched) + 1
         /\ call'.fetched[Len(call'.fetched)] =
               IF keyAwaited \in DOMAIN cache
               THEN Returned(cache[keyAwaited].data)
               ELSE Thrown("RateLimitError")]_vars

\* the three attempts answered 429 and an expired entry returned
C14_Witness ==
    /\ call.pc = "done"
    /\ Len(call.log) = 1 + maxRetries
    /\ \A k \in 1..Len(call.log) : call.log[k].answer = "429"
    /\ call.fetched # <<>>
    /\ call.fetched[1].kind = "returned"
    /\ \E key \in DOMAIN cache :
          /\ now > cache[key].expiresAt
          /\ call.fetched[1].value = cache[key].data
          /\ key \in {paginatedKey(call.season, "results"), standingsKey(call.season)}

(***************************************************************************)
(* C15.  A cached fetch called while the entry of its key is within its    *)
(* TTL ends at once with the cached data and makes no request; called      *)
(* after the TTL has passed, it makes a request.                           *)
(***************************************************************************)
keyOf(fn, season) ==
    IF fn = "getConstructorStandings" THEN standingsKey(season)
    ELSE paginatedKey(season, pathOf(fn))

Called == call'.n = call.n + 1

C15_CacheHit ==
    [][(Called /\ call'.fn \in CachedFns) =>
         LET key == keyOf(call'.fn, call'.season)
             cached == getCache(cache, key, now)
         IN /\ cached # None =>
                  /\ call'.pc = "done"
                  /\ call'.log = <<>>
                  /\ call'.result \in {Some(Returned(cached[1])),
                                       Some(seasonRows(call'.fn, Returned(cached[1])))}
            /\ (cached = None /\ key \in DOMAIN cache) => call'.pc # "done"]_vars

(***************************************************************************)
(* C16.  A season function whose fetch ends with the rate-limit error      *)
(* (429 on the last attempt, nothing cached) throws RateLimitError to its  *)
(* caller; one whose fetch fails otherwise returns the empty list.         *)
(***************************************************************************)
FetchFailed ==
    /\ call.pc = "done"
    /\ call.fetched # <<>>
    /\ call.fetched[Len(call.fetched)].kind = "thrown"

C16_RateLimitSignalled ==
    FetchFailed =>
        call.result =
            IF call.fetched[Len(call.fetched)].error = "RateLimitError"
            THEN Some(Thrown("RateLimitError"))
            ELSE Some(Returned(<<>>))

(***************************************************************************)
(* C17.  isRaceCompleted(date) is true exactly when the date is before     *)
(* now: what the race list shows of a race is false when rendered at or    *)
(* before the instant of the date and true when rendered after it, and as  *)
(* the clock advances a race once shown completed is shown completed at    *)
(* every later rendering.                                                  *)
(***************************************************************************)
Before(raceDate, t) ==
    \E day \in 0..2 :
       /\ raceDate = <<"2024-12-31", "2025-01-01", "2025-01-02">>[day + 1]
       /\ day * pastMs < t

C17_CompletedByClock ==
    /\ [](\A k \in 1..Len(raceList.races) :
            raceList.completed[k] <=> Before(raceList.races[k], raceList.at))
    /\ [][\A k \in 1..Len(raceList.races) :
            raceList.completed[k] => raceList'.completed[k]]_vars

\* rendered after the date of the first race and at the very instant of the
\* date of the second
C17_Witness ==
    /\ Len(raceList.races) = 2
    /\ raceList.races[1] = "2025-01-01"
    /\ raceList.races[2] = "2025-01-02"
    /\ raceList.at = 2 * pastMs
    /\ raceList.completed[1]
    /\ ~raceList.completed[2]

(***************************************************************************)
(* C18.  When the fetch of the race results is rate-limited or fails and   *)
(* the fetch of the qualifying results succeeds, the qualifying            *)
(* head-to-head of a rendered pair is computed from the qualifying data:   *)
(* totalQualis counts the sessions in which both drivers have an entry     *)
(* under the constructor, and when there is such a session the qualifying  *)
(* section is shown instead of its "no data" footer.                       *)
(***************************************************************************)
SessionRounds == {provider.qualifying[k].round : k \in 1..Len(provider.qualifying)}

QualifiedTogether(a, b, c) ==
    {r \in SessionRounds : Qualified(r, a, c) /\ Qualified(r, b, c)}

RaceFetchFailed ==
    \/ raceStatus = "rate_limited"
    \/ /\ raceStatus = "ok"
       /\ raceResults = <<>>
       /\ getAllSeasonResults(provider.races) # <<>>

QualiFetched ==
    /\ qualiStatus = "ok"
    /\ qualiResults # <<>>
    /\ qualiResults = getAllSeasonQualifying(provider.qualifying)

C18_QualiSurvivesRaceFailure ==
    (h2h # None /\ RaceFetchFailed /\ QualiFetched) =>
        LET a == h2h[1].driverAId
            b == h2h[1].driverBId
            c == h2h[1].constructorId
        IN /\ h2h[1].stats.totalQualis = Cardinality(QualifiedTogether(a, b, c))
           /\ QualifiedTogether(a, b, c) # {} =>
                 showQualiH2H(qualiStatus, h2h[1].stats)

(***************************************************************************)
(* C19.  When the season of the mounted view changes while the fetch of    *)
(* the previous season is pending, the late response is discarded: once    *)
(* every fetch has settled, in whatever order, the data the view holds is  *)
(* the data fetched for the season it shows.                               *)
(***************************************************************************)
Settled == inflight = {} /\ shown # 0

C19_StaleDiscarded ==
    Settled =>
        /\ fetches[shown] = viewSeason
        /\ raceResults \in {<<>>, getAllSeasonResults(providerOf(viewSeason).races)}
        /\ qualiResults \in {<<>>, getAllSeasonQualifying(providerOf(viewSeason).qualifying)}

(***************************************************************************)
(* C20.  Under any interleaving of two save flows of a season, each of     *)
(* which awaits the network before it saves, no completed save is lost:    *)
(* once the saves of two different rounds have both returned with their    *)
(* write done, the store holds the record of each round with the ratings   *)
(* saved for that round.                                                   *)
(***************************************************************************)
Completed(i) == flows[i].pc = "saved" /\ flows[i].written

\* the record of the round of flow i is there, with the ratings saved by flow
\* i or by another completed save of the same round
Stored(i) ==
    LET record == getRaceRatings(allRatings, ModalSeason, flows[i].round)
    IN /\ record # None
       /\ record[1].completed
       /\ \E k \in 1..MaxFlows :
             /\ Completed(k)
             /\ flows[k].round = flows[i].round
             /\ record[1].ratings = flows[k].ratings

C20_NoLostSave ==
    \A i, j \in 1..MaxFlows :
        (i # j /\ Completed(i) /\ Completed(j) /\ flows[i].round # flows[j].round)
            => (Stored(i) /\ Stored(j))

\* two flows that both loaded before either saved, each saving its own round
\* with its own rating
C20_Witness ==
    /\ Completed(1)
    /\ Completed(2)
    /\ flows[1].round # flows[2].round
    /\ flows[1].seen = Empty
    /\ flows[2].seen = Empty
    /\ flows[1].drivers # <<>>
    /\ flows[2].drivers # <<>>
    /\ flows[1].ratings # flows[2].ratings
    /\ \A i \in {1, 2} :
          getRaceRatings(allRatings, ModalSeason, flows[i].round)[1].ratings
             = flows[i].ratings

(***************************************************************************)
(* C21.  The cache entry of a paginated endpoint changes only in the step  *)
(* in which the last page of the collection is answered, and then to the   *)
(* whole collection with expiresAt = now + the TTL of the season; the step *)
(* that ends a successful fetch leaves the cache with that entry, unless   *)
(* the store refuses the write (setItem throws), and then as it was; every *)
(* other step of a fetch (a page that is not the last, a failure, an       *)
(* answer from the cache) leaves the cache as it was.                      *)
(* The TTL of the season is the one the fetch chose                        *)
(* when it began, by the year of the clock at that instant; now is the     *)
(* instant of the write.                                                   *)
(***************************************************************************)
YearAt(t) == IF t < pastMs THEN 2024 ELSE 2025

YearOf(season) ==
    IF season = "2023" THEN Some(2023)
    ELSE IF season = "2024" THEN Some(2024)
    ELSE IF season = "2025" THEN Some(2025)
    ELSE None

SeasonTtl(season, t) ==
    IF YearOf(season) = None THEN 600000
    ELSE IF YearOf(season)[1] >= YearAt(t) THEN 120000
    ELSE 86400000

Answered == Len(call'.log) = Len(call.log) + 1

FetchedAll ==
    /\ call.pc = "page"
    /\ Answered
    /\ call'.log[Len(call'.log)].answer = "ok"
    /\ Len(call'.fetched) = Len(call.fetched) + 1

Refreshed ==
    With(cache, paginatedKey(call.season, call.path),
         [expiresAt |-> now + call.ttlMs,
          data |-> Collection(call.path, call.total)])

C21_CacheOnSuccessOnly ==
    [][/\ (Called /\ call'.pc = "page") =>
             call'.ttlMs = SeasonTtl(call'.season, now)
       /\ (call.pc = "page" /\ cache' # cache) => (FetchedAll /\ cache' = Refreshed)
       /\ (FetchedAll /\ call'.written) => cache' = Refreshed
       /\ (FetchedAll /\ ~call'.written) => cache' = cache]_vars

\* a collection of two pages cached by the second call, made on a later day
\* of the clock, the cache holding nothing else
C21_Witness ==
    /\ call.n = 2
    /\ call.pc = "done"
    /\ call.total = limit + 1
    /\ now >= pastMs
    /\ paginatedKey(call.season, call.path) \in DOMAIN cache
    /\ LET entry == cache[paginatedKey(call.season, call.path)]
       IN /\ Len(entry.data) = limit + 1
          /\ entry.expiresAt = now + 86400000
    /\ Cardinality(DOMAIN cache) = 1

(***************************************************************************)
(* C22.  The TTL a request chooses when it begins is 2 minutes when the    *)
(* season of the request is the year of the clock or a later one, 24 hours *)
(* when it is an earlier year and 10 minutes when the season is not a      *)
(* year; every entry written to the cache expires that TTL after the       *)
(* instant of the write; and a call of                                     *)
(* getConstructorStandings whose key has an entry is answered from it      *)
(* exactly when now <= expiresAt.                                          *)
(***************************************************************************)
Written == {key \in DOMAIN cache' : key \notin DOMAIN cache \/ cache'[key] # cache[key]}

C22_SeasonTtl ==
    [][/\ (Called /\ call'.pc \in {"page", "standings"}) =>
             call'.ttlMs = SeasonTtl(call'.season, now)
       /\ \A key \in Written : cache'[key].expiresAt = now + call.ttlMs
       /\ (Called /\ call'.fn = "getConstructorStandings"
                  /\ standingsKey(call'.season) \in DOMAIN cache) =>
             (call'.pc = "done" <=> now <= cache[standingsKey(call'.season)].expiresAt)]_vars

\* the standings of a future season cached for two minutes and served from
\* the cache at the very instant of expiresAt
C22_Witness ==
    /\ call.n = 2
    /\ call.fn = "getConstructorStandings"
    /\ call.season = "2025"
    /\ call.pc = "done"
    /\ call.log = <<>>
    /\ standingsKey(call.season) \in DOMAIN cache
    /\ cache[standingsKey(call.season)].expiresAt = 120000
    /\ now = 120000

(***************************************************************************)
(* C23.  In every result of calculateH2H, totalRaces is the number of      *)
(* rounds of the round set in which both drivers have a classified result, *)
(* the wins of the two drivers and the rounds counted with equal positions *)
(* add up to it, and it is at most the size of the round set; the same     *)
(* holds of totalQualis over the rounds in which both have a qualifying    *)
(* entry.  A round with equal positions is a win of neither.               *)
(***************************************************************************)
RowsIn(rows, round, d, c) ==
    {k \in 1..Len(rows) :
        rows[k].round = round /\ rows[k].driverId = d /\ rows[k].constructorId = c}

ViewRoundSet(a, b, c) ==
    {raceResults[k].round :
        k \in {j \in 1..Len(raceResults) :
                 /\ raceResults[j].constructorId = c
                 /\ raceResults[j].driverId \in {a, b}}}

CountedRaces(a, b, c) ==
    {r \in ViewRoundSet(a, b, c) :
        /\ \E i \in RowsIn(raceResults, r, a, c) : raceResults[i].position # None
        /\ \E j \in RowsIn(raceResults, r, b, c) : raceResults[j].position # None}

TiedRaces(a, b, c) ==
    {r \in CountedRaces(a, b, c) :
        \E i \in RowsIn(raceResults, r, a, c), j \in RowsIn(raceResults, r, b, c) :
           raceResults[i].position = raceResults[j].position}

CountedQualis(a, b, c) ==
    {r \in ViewRoundSet(a, b, c) :
        RowsIn(qualiResults, r, a, c) # {} /\ RowsIn(qualiResults, r, b, c) # {}}

TiedQualis(a, b, c) ==
    {r \in CountedQualis(a, b, c) :
        \E i \in RowsIn(qualiResults, r, a, c), j \in RowsIn(qualiResults, r, b, c) :
           qualiResults[i].position = qualiResults[j].position}

C23_TotalsCountRounds ==
    h2h # None =>
        LET a == h2h[1].driverAId
            b == h2h[1].driverBId
            c == h2h[1].constructorId
            stats == h2h[1].stats
        IN /\ stats.totalRaces = Cardinality(CountedRaces(a, b, c))
           /\ stats.raceWinsA + stats.raceWinsB + Cardinality(TiedRaces(a, b, c))
                 = stats.totalRaces
           /\ stats.totalRaces <= Cardinality(ViewRoundSet(a, b, c))
           /\ stats.totalQualis = Cardinality(CountedQualis(a, b, c))
           /\ stats.qualiWinsA + stats.qualiWinsB + Cardinality(TiedQualis(a, b, c))
                 = stats.totalQualis
           /\ stats.totalQualis <= Cardinality(ViewRoundSet(a, b, c))

\* two rounds in the round set, one of them not counted in the race, the
\* other tied in the race and in the qualifying
C23_Witness ==
    /\ h2h # None
    /\ LET a == h2h[1].driverAId
           b == h2h[1].driverBId
           c == h2h[1].constructorId
           stats == h2h[1].stats
       IN /\ Cardinality(ViewRoundSet(a, b, c)) = 2
          /\ stats.totalRaces = 1
          /\ TiedRaces(a, b, c) # {}
          /\ stats.raceWinsA + stats.raceWinsB = 0
          /\ TiedQualis(a, b, c) # {}
          /\ stats.qualiWinsA + stats.qualiWinsB < stats.totalQualis

(***************************************************************************)
(* C24.  The rows of getDriverSeasonStats are the drivers of the standings *)
(* in standings order, one row each; the podiums of a row are the race     *)
(* results of the driver with position 1, 2 or 3 and its poles the         *)
(* qualifying sessions in which the driver has position 1 (0 when there    *)
(* are none); a driver who is not in the standings has no row.             *)
(***************************************************************************)
PodiumResults(d) ==
    {<<k, i>> \in (1..Len(provider.races)) \X (1..(MaxPosition + 1)) :
        /\ i <= Len(provider.races[k].Results)
        /\ provider.races[k].Results[i].driverId = d
        /\ provider.races[k].Results[i].position \in {"1", "2", "3"}}

PoleSessions(d) ==
    {k \in 1..Len(provider.qualifying) :
        \E i \in 1..Len(provider.qualifying[k].QualifyingResults) :
           /\ provider.qualifying[k].QualifyingResults[i].driverId = d
           /\ provider.qualifying[k].QualifyingResults[i].position = "1"}

StatsLoaded == page.driverStats # <<>>

C24_StatsPerStanding ==
    StatsLoaded =>
        /\ Len(page.driverStats) = Len(provider.driverStandings)
        /\ \A i \in 1..Len(page.driverStats) :
              LET row == page.driverStats[i] IN
              /\ row.driverId = provider.driverStandings[i].driverId
              /\ row.podiums = Cardinality(PodiumResults(row.driverId))
              /\ row.poles = Cardinality(PoleSessions(row.driverId))

\* a driver with two podiums for two teams and every pole, a driver of the
\* standings who qualified second, finished second once and off the podium
\* once, and a race winner who is not in the standings
C24_Witness ==
    /\ StatsLoaded
    /\ \A i \in 1..Len(page.driverStats) : page.driverStats[i].driverId # "piastri"
    /\ PodiumResults("piastri") # {}
    /\ \E i \in 1..Len(page.driverStats) :
          /\ page.driverStats[i].driverId = "sainz"
          /\ page.driverStats[i].podiums = 2
          /\ page.driverStats[i].poles = Len(provider.qualifying)
    /\ \E i \in 1..Len(page.driverStats) :
          /\ page.driverStats[i].driverId = "norris"
          /\ page.driverStats[i].podiums = 1
          /\ page.driverStats[i].poles = 0
          /\ \E k \in 1..Len(provider.qualifying) :
                provider.qualifying[k].QualifyingResults # <<>>

(***************************************************************************)
(* C25.  In the constructor standings table, the poles and the podiums     *)
(* shown for a constructor are the sums of the poles and of the podiums of *)
(* the rows of DriverSeasonStats that belong to the constructor, also in a *)
(* season in which a driver changes team.                                  *)
(***************************************************************************)
TeamIds == {"mclaren", "ferrari", "williams"}

RECURSIVE SumOver(_, _, _)
SumOver(rows, c, field) ==
    IF rows = <<>> THEN 0
    ELSE (IF Head(rows).constructorId = c THEN Head(rows)[field] ELSE 0)
         + SumOver(Tail(rows), c, field)

PageLoaded ==
    /\ StatsLoaded
    /\ page.raceResults = getAllSeasonResults(provider.races)

C25_ConstructorSums ==
    PageLoaded =>
        \A c \in TeamIds :
           /\ Get(page.constructorPoles, c, 0) = SumOver(page.driverStats, c, "poles")
           /\ Get(page.constructorPodiums, c, 0) = SumOver(page.driverStats, c, "podiums")

(***************************************************************************)
(* C26.  In the race-by-round map of the drivers' table, the points of a   *)
(* (driver, round) cell are the points of the driver's main race of the    *)
(* round plus those of the sprint; a driver with a sprint result and no    *)
(* main-race result in the round has a cell without a position, never a    *)
(* null one, and a cell has a null position only for a main-race result    *)
(* that was not classified.                                                *)
(***************************************************************************)
RECURSIVE PointsIn(_, _, _)
PointsIn(rows, d, round) ==
    IF rows = <<>> THEN 0
    ELSE (IF Head(rows).driverId = d /\ Head(rows).round = round
          THEN Head(rows).points ELSE 0)
         + PointsIn(Tail(rows), d, round)

Entered(rows) == {<<rows[k].driverId, rows[k].round>> : k \in 1..Len(rows)}

C26_WeekendPoints ==
    /\ DOMAIN page.wdcRaceMap = Entered(page.raceResults) \cup Entered(page.sprintResults)
    /\ \A key \in DOMAIN page.wdcRaceMap :
          LET cell == page.wdcRaceMap[key]
              main == {k \in 1..Len(page.raceResults) :
                          /\ page.raceResults[k].driverId = key[1]
                          /\ page.raceResults[k].round = key[2]}
          IN /\ cell.points = PointsIn(page.raceResults, key[1], key[2])
                              + PointsIn(page.sprintResults, key[1], key[2])
             /\ "position" \in DOMAIN cell <=> key \in Entered(page.raceResults)
             /\ key \in Entered(page.raceResults) =>
                   \E k \in main : cell.position = page.raceResults[k].position

\* a weekend of 18 + 8 points, a sprint retirement without a main race, and
\* a retirement in a main race
C26_Witness ==
    /\ \E key \in DOMAIN page.wdcRaceMap :
          /\ page.wdcRaceMap[key].points = 26
          /\ page.wdcRaceMap[key].position = Some(2)
    /\ \E key \in DOMAIN page.wdcRaceMap :
          /\ "position" \notin DOMAIN page.wdcRaceMap[key]
    /\ \E key \in DOMAIN page.wdcRaceMap :
          /\ "position" \in DOMAIN page.wdcRaceMap[key]
          /\ page.wdcRaceMap[key].position = None

(***************************************************************************)
(* C27.  getRaceByRaceMatrix lists the rated races of the season by        *)
(* ascending round number (round "10" after round "9") whatever the order  *)
(* of the saves, has exactly one row per driverId with a rating, and the   *)
(* totalAverage of a row is the mean of the driver's ratings, over the     *)
(* rounds in which the driver has one, rounded to two decimals: a          *)
(* two-decimal value nearest to the mean, either of the two when the mean  *)
(* lies exactly between them.                                              *)
(***************************************************************************)
RoundNumber(round) == CHOOSE n \in 1..Len(RoundNames) : RoundNames[n] = round

MatrixStore == IF "2024" \in DOMAIN allRatings THEN allRatings["2024"].races ELSE <<>>

RatedIn(d) ==
    {k \in 1..Len(MatrixStore) :
        \E i \in 1..Len(MatrixStore[k].ratings) : MatrixStore[k].ratings[i].driverId = d}

RatingIn(d, k) ==
    LET i == CHOOSE i \in 1..Len(MatrixStore[k].ratings) :
                MatrixStore[k].ratings[i].driverId = d
    IN MatrixStore[k].ratings[i].rating

RECURSIVE SumRatings(_, _)
SumRatings(d, ks) ==
    IF ks = {} THEN 0
    ELSE LET k == CHOOSE k \in ks : TRUE
         IN RatingIn(d, k) + SumRatings(d, ks \ {k})

MatrixDrivers == {"hill", "senna"}

MatrixRead == last.op = "getRaceByRaceMatrix"

C27_MatrixByRound ==
    MatrixRead =>
        LET races == last.result.races
            drivers == last.result.drivers
        IN /\ {races[i].round : i \in 1..Len(races)}
                 = {MatrixStore[k].round : k \in 1..Len(MatrixStore)}
           /\ \A i \in 1..(Len(races) - 1) :
                 RoundNumber(races[i].round) < RoundNumber(races[i + 1].round)
           /\ \A d \in MatrixDrivers :
                 Cardinality({i \in 1..Len(drivers) : drivers[i].driverId = d})
                    = IF RatedIn(d) = {} THEN 0 ELSE 1
           /\ \A i \in 1..Len(drivers) :
                 LET n == Cardinality(RatedIn(drivers[i].driverId))
                     sum == SumRatings(drivers[i].driverId, RatedIn(drivers[i].driverId))
                     average == drivers[i].totalAverage
                 IN /\ 2 * (average * n - sum) <= n
                    /\ 2 * (sum - average * n) <= n

\* round 10 saved first, then 9, then 2; a driver rated 8, 6 and 6 has 6.67
C27_Witness ==
    /\ MatrixRead
    /\ Len(MatrixStore) = 3
    /\ MatrixStore[1].round = "10"
    /\ MatrixStore[2].round = "9"
    /\ last.result.races = <<[round |-> "2"], [round |-> "9"], [round |-> "10"]>>
    /\ \E i \in 1..Len(last.result.drivers) :
          /\ last.result.drivers[i].driverId = "hill"
          /\ last.result.drivers[i].totalAverage = 667

(***************************************************************************)
(* C30.  After clearAllRatings has removed its key, no season has a stored *)
(* rating: getSeasonRatings and getQuickRatings return null and            *)
(* calculateAverages returns the empty list, for every season.             *)
(***************************************************************************)
C30_ClearAllClearsAll ==
    (last.op = "clearAllRatings" /\ AllWritten(last.writes)) =>
        \A s \in Seasons :
            /\ getSeasonRatings(allRatings, s) = None
            /\ getQuickRatings(allQuickRatings, s) = None
            /\ calculateAverages(allRatings, allQuickRatings, s) = <<>>

(***************************************************************************)
(* C29.  A save from the rating modal whose driver list did not load       *)
(* destroys nothing: it does not replace stored, non-empty ratings of the  *)
(* round by an empty list, and it does not leave a round without ratings   *)
(* marked as rated.                                                        *)
(***************************************************************************)
SavedUnloaded ==
    /\ last.op = "saveRaceRatings"
    /\ AllWritten(last.writes)
    /\ last.ratings = <<>>
    /\ \E i \in 1..MaxFlows :
          /\ flows[i].pc = "saved"
          /\ flows[i].round = last.round
          /\ flows[i].drivers = <<>>

C29_SaveKeepsRatings ==
    SavedUnloaded =>
        LET before == getRaceRatings(IF last.pre.races = None THEN Empty
                                     ELSE With(Empty, last.season, last.pre.races[1]),
                                     last.season, last.round)
            after == getRaceRatings(allRatings, last.season, last.round)
        IN /\ (before # None /\ before[1].ratings # <<>>) =>
                 (after # None /\ after[1].ratings # <<>>)
           /\ (after = None \/ after[1].ratings = <<>>) =>
                 ~isRaceRated(allRatings, last.season, last.round)

(***************************************************************************)
(* C28.  Whatever the modals saved, files imported and clears done, every  *)
(* rating in the store, race by race or quick, is one of 0.5, 1.0, ...,    *)
(* 10.0; and a modal that saved a driver left at 0 stored 5 for the        *)
(* driver.                                                                 *)
(***************************************************************************)
RatingGrid == {50 * k : k \in 1..20}

OnGrid(ratings) == \A k \in 1..Len(ratings) : ratings[k].rating \in RatingGrid

SavedFlows == {i \in 1..MaxFlows : flows[i].pc \in {"saved", "savedQuick"}}

C28_RatingsOnGrid ==
    /\ \A s \in DOMAIN allRatings :
          \A k \in 1..Len(allRatings[s].races) : OnGrid(allRatings[s].races[k].ratings)
    /\ \A s \in DOMAIN allQuickRatings : OnGrid(allQuickRatings[s])
    /\ \A i \in SavedFlows :
          \A k \in 1..Len(flows[i].drivers) :
             flows[i].drivers[k].rating = 0 => flows[i].ratings[k].rating = 500

====
